---- MODULE Spec2Model ----
(***************************************************************************)
(* Model of the nicodb-django streaming pipeline:                          *)
(*   streamings/models.py                       the three tables           *)
(*   management/commands/get_streaming_data.py  the single-ID command      *)
(*   management/commands/get_streaming_data_range.py  the range command    *)
(*                                                                         *)
(* Python values are modelled as follows.                                  *)
(*   - a str that the code takes apart (ids, URLs) is a sequence of        *)
(*     one-character strings, <<"l","v","1">> for "lv1";                   *)
(*   - a str that the code only stores and compares (names, titles) is a   *)
(*     TLA+ string, of which only equality and Len are used;               *)
(*   - a value that may be an int or a str is tagged: <<"int", n>> or      *)
(*     <<"str", s>>;                                                       *)
(*   - a Unix timestamp is an integer; an aware datetime (UTC) is the      *)
(*     pair <<days since the epoch, second of the day>>.                   *)
(* The storage backend is PostgreSQL (nicodb/settings.py:100), so a        *)
(* CharField(max_length=n) is varchar(n) and a longer value is refused     *)
(* with a DataError.  The database is assumed reachable: the only storage  *)
(* errors are the ones the data itself provokes.                           *)
(***************************************************************************)
EXTENDS Integers, Sequences, FiniteSets, TLC

VARIABLES
    streamers,   \* table Streamer: set of rows
    channels,    \* table Channel: set of rows
    streamings,  \* table Streaming: set of rows
    now,         \* the clock: timezone.now() as read by the last row creation
    rng,         \* the range command: where its run stands, what it logged
    ops,         \* operations run so far
    last,        \* what the last operation was, got and gave back (observation)
    procs        \* two processes saving at once: where each stands

vars == <<streamers, channels, streamings, now, rng, ops, last, procs>>

----------------------------------------------------------------------------
(* Bounds of the model.                                                    *)

\* operations (direct calls and single-ID pipeline runs) in one behaviour
MaxOps == 3

----------------------------------------------------------------------------
(* Program constants.                                                      *)

\* settings.UNKNOWN_* are read from the environment; the tests pin them.
\* The texts are Japanese; ASCII texts within the same column widths stand
\* for them (the streamer name has 14 characters, under the 16 allowed).
UNKNOWN_STREAMER_ID == 0
UNKNOWN_STREAMER_NAME == "-- no streamer"
UNKNOWN_CHANNEL_ID == 0
UNKNOWN_CHANNEL_NAME == "-- no channel --"
UNKNOWN_COMPANY_NAME == "-- no company --"
UNKNOWN_STREAMING_TITLE == "-- no streaming --"

\* streamings/constants.py
StreamingStatus == [RESERVED |-> 10, ON_AIR |-> 20, ENDED |-> 30]
StreamingType == [UNKNOWN |-> 0, USER |-> 10, CHANNEL |-> 20, COMPANY |-> 30]

\* models.py: CharField(max_length=...)
StreamerNameMaxLength == 16
ChannelNameMaxLength == 100
CompanyNameMaxLength == 100
TitleMaxLength == 100

\* datetime(2007, 12, 25, tzinfo=timezone.utc) is 13872 days after the epoch
SentinelDay == 13872
SecondsPerDay == 86400

----------------------------------------------------------------------------
(* Python values.                                                          *)

PyInt(n) == <<"int", n>>
PyStr(s) == <<"str", s>>
IsInt(v) == v[1] = "int"

Digits == {"0", "1", "2", "3", "4", "5", "6", "7", "8", "9"}

DigitVal(c) ==
    CASE c = "0" -> 0 [] c = "1" -> 1 [] c = "2" -> 2 [] c = "3" -> 3
      [] c = "4" -> 4 [] c = "5" -> 5 [] c = "6" -> 6 [] c = "7" -> 7
      [] c = "8" -> 8 [] c = "9" -> 9

IsDigits(s) == Len(s) > 0 /\ \A i \in 1..Len(s) : s[i] \in Digits

RECURSIVE DigitsVal(_)
DigitsVal(s) ==
    IF s = <<>> THEN 0
    ELSE 10 * DigitsVal(SubSeq(s, 1, Len(s) - 1)) + DigitVal(s[Len(s)])

\* int(v) accepts an int, or a str of an optional sign and decimal digits
IntOk(v) ==
    \/ IsInt(v)
    \/ IsDigits(v[2])
    \/ Len(v[2]) > 1 /\ v[2][1] \in {"-", "+"} /\ IsDigits(Tail(v[2]))

\* int(v), where IntOk(v); elsewhere int() raises ValueError
int(v) ==
    IF IsInt(v) THEN v[2]
    ELSE IF v[2][1] = "-" THEN 0 - DigitsVal(Tail(v[2]))
    ELSE IF v[2][1] = "+" THEN DigitsVal(Tail(v[2]))
    ELSE DigitsVal(v[2])

----------------------------------------------------------------------------
(* The tables.                                                             *)

\* BigAutoField: a new row gets a primary key no row of the table has
NextPk(rows) ==
    IF rows = {} THEN 1
    ELSE 1 + (CHOOSE m \in {r.id : r \in rows} : \A r \in rows : r.id <= m)

\* the same lookup ordered by "created_at": the oldest row, not the latest
oldest_streamer(S, streamer_id) ==
    LET rows == {r \in S : r.streamer_id = streamer_id}
    IN  IF rows = {} THEN {}
        ELSE {CHOOSE r \in rows : \A q \in rows : r.created_at <= q.created_at}

\* Streamer.objects.filter(streamer_id=...).order_by("-created_at").first():
\* the set holding that row, or {} for None
latest_streamer(S, streamer_id) ==
    LET rows == {r \in S : r.streamer_id = streamer_id}
    IN  IF rows = {} THEN {}
        ELSE {CHOOSE r \in rows : \A q \in rows : q.created_at <= r.created_at}

\* a DurationField takes a timedelta, <<"td", seconds>>, or what PostgreSQL
\* reads as an interval: the "HH:MM:SS" string of calculate_duration,
\* <<"hms", h, m, s>>
ToInterval(d) ==
    IF d[1] = "td" THEN d[2] ELSE d[2] * 3600 + d[3] * 60 + d[4]

----------------------------------------------------------------------------
(* Command.save_or_get_streamer and the ORM calls beneath it.              *)

\* what an update_or_create(streamer_id=..., defaults={"name": ...}) would
\* do instead: rename the rows of the id in place
Streamer_update_name(S, clk, streamer_id, name) ==
    LET rows == {r \in S : r.streamer_id = streamer_id}
    IN  IF rows = {}
        THEN [raised |-> FALSE,
              streamers |-> S \cup {[id |-> NextPk(S), streamer_id |-> streamer_id,
                                     name |-> name, created_at |-> clk + 1]},
              now |-> clk + 1, ret |-> NextPk(S)]
        ELSE [raised |-> FALSE,
              streamers |-> (S \ rows) \cup {[r EXCEPT !.name = name] : r \in rows},
              now |-> clk,
              ret |-> (CHOOSE r \in rows : TRUE).id]

\* Streamer.objects.create(streamer_id=..., name=...): created_at is
\* auto_now_add, the clock read at the insert; the clock has advanced since
\* the last insert.  A name over varchar(16) is refused (DataError).
Streamer_create(S, clk, streamer_id, name) ==
    IF Len(name) > StreamerNameMaxLength
    THEN [raised |-> TRUE, streamers |-> S, now |-> clk, ret |-> 0]
    ELSE LET row == [id |-> NextPk(S), streamer_id |-> streamer_id,
                     name |-> name, created_at |-> clk + 1]
         IN  [raised |-> FALSE, streamers |-> S \cup {row}, now |-> clk + 1,
              ret |-> row.id]

\* the method without its comparison with the latest row: a row per call
save_or_get_streamer_always_create(S, clk, streamer_id, streamer_name) ==
    [raised |-> FALSE,
     streamers |-> S \cup {[id |-> NextPk(S), streamer_id |-> streamer_id,
                            name |-> streamer_name, created_at |-> clk + 1]},
     now |-> clk + 1, ret |-> NextPk(S)]

\* ret is the primary key of the Streamer row returned, 0 when it raised
save_or_get_streamer(S, clk, streamer_id, streamer_name) ==
    LET latest == latest_streamer(S, streamer_id)
    IN  IF latest = {} \/ (\E r \in latest : r.name # streamer_name)
        THEN Streamer_create(S, clk, streamer_id, streamer_name)
        ELSE [raised |-> FALSE, streamers |-> S, now |-> clk,
              ret |-> (CHOOSE r \in latest : TRUE).id]

----------------------------------------------------------------------------
(* Command.create_or_update_channel.                                       *)

\* Channel.objects.create in place of update_or_create, on a table without
\* the unique constraint: a row per call
create_or_update_channel_insert(C, channel_id, channel_name, company_name) ==
    [raised |-> FALSE, created |-> TRUE,
     channels |-> C \cup {[id |-> NextPk(C), channel_id |-> channel_id,
                           name |-> channel_name,
                           company_name |-> company_name]},
     ret |-> NextPk(C)]

\* Channel.objects.update_or_create(channel_id=..., defaults={...});
\* channel_id is unique.  ret is the row's primary key, 0 when it raised;
\* created is the flag update_or_create returns.
create_or_update_channel(C, channel_id, channel_name, company_name) ==
    LET found == {r \in C : r.channel_id = channel_id}
    IN  IF \/ Len(channel_name) > ChannelNameMaxLength
           \/ Len(company_name) > CompanyNameMaxLength
        THEN [raised |-> TRUE, created |-> FALSE, channels |-> C, ret |-> 0]
        ELSE IF found = {}
        THEN LET row == [id |-> NextPk(C), channel_id |-> channel_id,
                         name |-> channel_name, company_name |-> company_name]
             IN  [raised |-> FALSE, created |-> TRUE, channels |-> C \cup {row},
                  ret |-> row.id]
        ELSE LET old == CHOOSE r \in found : TRUE
                 row == [old EXCEPT !.name = channel_name,
                                    !.company_name = company_name]
             IN  [raised |-> FALSE, created |-> FALSE,
                  channels |-> (C \ {old}) \cup {row}, ret |-> row.id]

----------------------------------------------------------------------------
(* Command.save_or_update_streaming.                                       *)

\* the defaults={...} of the update_or_create call
StreamingDefaults(streaming_data, streamer, channel) ==
    [type |-> streaming_data.type,
     title |-> streaming_data.title,
     start_time |-> streaming_data.start_time,
     end_time |-> streaming_data.end_time,
     duration_time |-> ToInterval(streaming_data.duration_time),
     status |-> streaming_data.status,
     streamer |-> streamer,
     channel |-> channel]

StreamingRow(pk, streaming_id, d) ==
    [id |-> pk, streaming_id |-> streaming_id, type |-> d.type,
     title |-> d.title, start_time |-> d.start_time, end_time |-> d.end_time,
     duration_time |-> d.duration_time, status |-> d.status,
     streamer |-> d.streamer, channel |-> d.channel]

\* Streaming.objects.create in place of update_or_create: a row per call
save_or_update_streaming_always_insert(T, streaming_data, streamer, channel) ==
    IF ~IntOk(streaming_data.id) \/ Len(streaming_data.title) > TitleMaxLength
    THEN [raised |-> TRUE, created |-> FALSE, streamings |-> T]
    ELSE [raised |-> FALSE, created |-> TRUE,
          streamings |->
             T \cup {StreamingRow(NextPk(T), int(streaming_data.id),
                                  StreamingDefaults(streaming_data, streamer,
                                                    channel))}]

\* an update that leaves the row's streamer and channel as they were
save_or_update_streaming_keep_links(T, streaming_data, streamer, channel) ==
    IF ~IntOk(streaming_data.id) \/ Len(streaming_data.title) > TitleMaxLength
    THEN [raised |-> TRUE, created |-> FALSE, streamings |-> T]
    ELSE
    LET sid == int(streaming_data.id)
        found == {r \in T : r.streaming_id = sid}
    IN  IF found = {}
        THEN [raised |-> FALSE, created |-> TRUE,
              streamings |->
                 T \cup {StreamingRow(NextPk(T), sid,
                                      StreamingDefaults(streaming_data, streamer,
                                                        channel))}]
        ELSE LET old == CHOOSE r \in found : TRUE
             IN  [raised |-> FALSE, created |-> FALSE,
                  streamings |->
                     (T \ {old}) \cup
                     {StreamingRow(old.id, sid,
                                   StreamingDefaults(streaming_data,
                                                     old.streamer,
                                                     old.channel))}]

\* Streaming.objects.update_or_create(streaming_id=streaming_data.id, ...):
\* the BigIntegerField lookup takes int(id) (ValueError on a non-number);
\* get() raises MultipleObjectsReturned on several rows (streaming_id is not
\* unique in models.py); a title over varchar(100) is refused.
\* streamer and channel are the primary keys of the rows passed in;
\* created is the flag update_or_create returns.
save_or_update_streaming(T, streaming_data, streamer, channel) ==
    IF ~IntOk(streaming_data.id)
    THEN [raised |-> TRUE, created |-> FALSE, streamings |-> T]
    ELSE
    LET sid == int(streaming_data.id)
        found == {r \in T : r.streaming_id = sid}
        d == StreamingDefaults(streaming_data, streamer, channel)
    IN  IF Cardinality(found) > 1 \/ Len(streaming_data.title) > TitleMaxLength
        THEN [raised |-> TRUE, created |-> FALSE, streamings |-> T]
        ELSE IF found = {}
        THEN [raised |-> FALSE, created |-> TRUE,
              streamings |-> T \cup {StreamingRow(NextPk(T), sid, d)}]
        ELSE LET old == CHOOSE r \in found : TRUE
             IN  [raised |-> FALSE, created |-> FALSE,
                  streamings |-> (T \ {old}) \cup {StreamingRow(old.id, sid, d)}]

----------------------------------------------------------------------------
(* Command.save_streaming_data: the three sub-operations in order, each in *)
(* its own transaction (autocommit), any exception wrapped and re-raised.  *)

\* What save_streaming_data leaves: the tables and the clock, whether it
\* raised, and the sub-operation that did ("" when none)
Saved(raised, stage, S, C, T, clk) ==
    [raised |-> raised, stage |-> stage, streamers |-> S, channels |-> C,
     streamings |-> T, now |-> clk]

\* after save_or_get_streamer (a) and create_or_update_channel (b) returned:
\* c is what save_or_update_streaming gave
SaveAfterStreaming(T, a, b, c) ==
    IF c.raised THEN Saved(TRUE, "streaming", a.streamers, b.channels, T, a.now)
    ELSE Saved(FALSE, "", a.streamers, b.channels, c.streamings, a.now)

\* after save_or_get_streamer (a) returned: b is what
\* create_or_update_channel gave
SaveAfterChannel(C, T, streaming_data, a, b) ==
    IF b.raised THEN Saved(TRUE, "channel", a.streamers, C, T, a.now)
    ELSE SaveAfterStreaming(T, a, b,
            save_or_update_streaming(T, streaming_data, a.ret, b.ret))

\* a is what save_or_get_streamer gave
SaveAfterStreamer(S, C, T, clk, streaming_data, a) ==
    IF a.raised THEN Saved(TRUE, "streamer", S, C, T, clk)
    ELSE IF ~IntOk(streaming_data.channel_id)
    THEN Saved(TRUE, "channel", a.streamers, C, T, a.now)
    ELSE SaveAfterChannel(C, T, streaming_data, a,
            create_or_update_channel(C, int(streaming_data.channel_id),
                                     streaming_data.channel_name,
                                     streaming_data.company_name))

\* save_streaming_data in a transaction: a failure undoes the writes made
save_streaming_data_atomic(S, C, T, clk, streaming_data) ==
    IF ~IntOk(streaming_data.streamer_id)
    THEN Saved(TRUE, "streamer", S, C, T, clk)
    ELSE LET r == SaveAfterStreamer(S, C, T, clk, streaming_data,
                    save_or_get_streamer(S, clk, int(streaming_data.streamer_id),
                                         streaming_data.streamer_name))
         IN  IF r.raised THEN Saved(TRUE, r.stage, S, C, T, clk) ELSE r

save_streaming_data(S, C, T, clk, streaming_data) ==
    IF ~IntOk(streaming_data.streamer_id)
    THEN Saved(TRUE, "streamer", S, C, T, clk)
    ELSE SaveAfterStreamer(S, C, T, clk, streaming_data,
            save_or_get_streamer(S, clk, int(streaming_data.streamer_id),
                                 streaming_data.streamer_name))

----------------------------------------------------------------------------
(* The normalizer: Command.extract_streaming_data and its helpers.         *)

\* datetime.fromtimestamp(unix_time, timezone.utc)
convert_unix_to_datetime(unix_time) ==
    <<unix_time \div SecondsPerDay, unix_time % SecondsPerDay>>

\* convert_streaming_status_to_code if a status without a code passed as 0
convert_streaming_status_to_code_lenient(status) ==
    [raised |-> FALSE,
     ret |-> IF status \in DOMAIN StreamingStatus THEN StreamingStatus[status]
             ELSE 0]

\* StreamingStatus[status].value; KeyError becomes ValueError
StatusNames == {"RESERVED", "ON_AIR", "ENDED"}
convert_streaming_status_to_code(status) ==
    IF status \in StatusNames
    THEN [raised |-> FALSE, ret |-> StreamingStatus[status]]
    ELSE [raised |-> TRUE, ret |-> 0]

\* calculate_duration if it took the distance of the two times whichever
\* comes first
calculate_duration_abs(start_time, end_time) ==
    LET duration_seconds == IF end_time < start_time THEN start_time - end_time
                            ELSE end_time - start_time
        remainder == duration_seconds % 3600
    IN  [raised |-> FALSE,
         ret |-> <<"hms", duration_seconds \div 3600, remainder \div 60,
                   remainder % 60>>]

\* the "HH:MM:SS" string, as <<"hms", hours, minutes, seconds>>
calculate_duration(start_time, end_time) ==
    IF end_time < start_time THEN [raised |-> TRUE, ret |-> <<"hms", 0, 0, 0>>]
    ELSE LET duration_seconds == end_time - start_time
             hours == duration_seconds \div 3600
             remainder == duration_seconds % 3600
         IN  [raised |-> FALSE,
              ret |-> <<"hms", hours, remainder \div 60, remainder % 60>>]

\* s[len(prefix):] in place of s.removeprefix(prefix): the leading
\* characters go, whatever they are
removeprefix_blind(s, prefix) ==
    IF Len(s) >= Len(prefix) THEN SubSeq(s, Len(prefix) + 1, Len(s)) ELSE <<>>

\* str.removeprefix on a str of one-character strings
removeprefix(s, prefix) ==
    IF Len(s) >= Len(prefix) /\ SubSeq(s, 1, Len(prefix)) = prefix
    THEN SubSeq(s, Len(prefix) + 1, Len(s))
    ELSE s

Has(d, key) == key \in DOMAIN d

\* dict.get(key, default)
Get(d, key, default) == IF Has(d, key) THEN d[key] ELSE default

Failed(error, detail) == [raised |-> TRUE, error |-> error, detail |-> detail]

\* The first key whose lookup raises KeyError inside the try block, in the
\* order the lookups are executed; "" when none does.
FirstKeyError(data_props_dict) ==
    IF ~Has(data_props_dict, "program") THEN "program"
    ELSE
    LET program == data_props_dict["program"]
        social == IF Has(data_props_dict, "socialGroup")
                  THEN data_props_dict["socialGroup"] ELSE <<>>
    IN
    IF ~Has(program, "providerType") THEN "providerType"
    ELSE IF ~Has(program, "nicoliveProgramId") THEN "nicoliveProgramId"
    ELSE IF ~Has(program, "title") THEN "title"
    ELSE IF ~Has(program, "beginTime") THEN "beginTime"
    ELSE IF ~Has(program, "endTime") THEN "endTime"
    ELSE IF ~Has(program, "status") THEN "status"
    ELSE IF program["status"] \notin StatusNames THEN ""
    ELSE IF program["providerType"] \notin {"channel", "official"} THEN ""
    ELSE IF ~Has(data_props_dict, "socialGroup") THEN "socialGroup"
    ELSE IF ~Has(social, "id") THEN "id"
    ELSE IF ~Has(social, "name") THEN "name"
    ELSE IF ~Has(social, "companyName") THEN "companyName"
    ELSE ""

\* provider_data of a community stream if an incomplete supplier counted as
\* no supplier
OfSupplier_whole_or_none(data_props_dict) ==
    LET supplier == Get(data_props_dict["program"], "supplier", <<>>)
        whole == Has(supplier, "programProviderId") /\ Has(supplier, "name")
    IN  [type |-> StreamingType.USER,
         streamer_id |-> IF whole THEN PyStr(supplier["programProviderId"])
                         ELSE PyInt(UNKNOWN_STREAMER_ID),
         streamer_name |-> IF whole THEN supplier["name"]
                           ELSE UNKNOWN_STREAMER_NAME,
         channel_id |-> PyInt(UNKNOWN_CHANNEL_ID),
         channel_name |-> UNKNOWN_CHANNEL_NAME,
         company_name |-> UNKNOWN_COMPANY_NAME]

\* provider_data of a community stream: the streamer from "supplier"
OfSupplier(data_props_dict) ==
    LET supplier == Get(data_props_dict["program"], "supplier", <<>>)
    IN  [type |-> StreamingType.USER,
         streamer_id |-> IF Has(supplier, "programProviderId")
                         THEN PyStr(supplier["programProviderId"])
                         ELSE PyInt(UNKNOWN_STREAMER_ID),
         streamer_name |-> Get(supplier, "name", UNKNOWN_STREAMER_NAME),
         channel_id |-> PyInt(UNKNOWN_CHANNEL_ID),
         channel_name |-> UNKNOWN_CHANNEL_NAME,
         company_name |-> UNKNOWN_COMPANY_NAME]

\* provider_data of a channel or official stream: the channel from
\* "socialGroup"
OfSocialGroup(data_props_dict, type) ==
    LET social == data_props_dict["socialGroup"]
    IN  [type |-> type,
         streamer_id |-> PyInt(UNKNOWN_STREAMER_ID),
         streamer_name |-> UNKNOWN_STREAMER_NAME,
         channel_id |-> PyStr(removeprefix(social["id"], <<"c", "h">>)),
         channel_name |-> social["name"],
         company_name |-> social["companyName"]]

\* provider_data if official streams were typed like channel streams
ProviderData_official_as_channel(data_props_dict, provider_type) ==
    IF provider_type = "community" THEN OfSupplier(data_props_dict)
    ELSE OfSocialGroup(data_props_dict, StreamingType.CHANNEL)

\* provider_data of the three known provider types
ProviderData(data_props_dict, provider_type) ==
    IF provider_type = "community" THEN OfSupplier(data_props_dict)
    ELSE IF provider_type = "channel"
    THEN OfSocialGroup(data_props_dict, StreamingType.CHANNEL)
    ELSE OfSocialGroup(data_props_dict, StreamingType.COMPANY)

\* Command.extract_streaming_data: a StreamingData in .data, or the error
extract_streaming_data(data_props_dict) ==
    LET key == FirstKeyError(data_props_dict) IN
    IF key # "" THEN Failed("MissingField", key)
    ELSE
    LET program == data_props_dict["program"]
        provider_type == program["providerType"]
        status == convert_streaming_status_to_code(program["status"])
        duration == calculate_duration(program["beginTime"], program["endTime"])
    IN
    IF status.raised THEN Failed("UnknownStatus", program["status"])
    ELSE IF provider_type \notin {"community", "channel", "official"}
    THEN Failed("UnknownProviderType", provider_type)
    ELSE IF duration.raised THEN Failed("InvalidTimeRange", "")
    ELSE
    LET provider_data == ProviderData(data_props_dict, provider_type)
    IN  [raised |-> FALSE,
         data |->
            [id |-> PyStr(removeprefix(program["nicoliveProgramId"], <<"l", "v">>)),
             type |-> provider_data.type,
             title |-> program["title"],
             start_time |-> convert_unix_to_datetime(program["beginTime"]),
             end_time |-> convert_unix_to_datetime(program["endTime"]),
             duration_time |-> duration.ret,
             status |-> status.ret,
             streamer_id |-> provider_data.streamer_id,
             streamer_name |-> provider_data.streamer_name,
             channel_id |-> provider_data.channel_id,
             channel_name |-> provider_data.channel_name,
             company_name |-> provider_data.company_name]]

----------------------------------------------------------------------------
(* The fetcher, the markup extractor and the payload decoder.              *)

\* settings.STREAMING_BASE_URL: read from the environment,
\* "https://live.nicovideo.jp/watch/lv" in the tests
STREAMING_BASE_URL ==
    <<"h", "t", "t", "p", "s", ":", "/", "/", "l", "i", "v", "e", ".",
      "n", "i", "c", "o", "v", "i", "d", "e", "o", ".", "j", "p", "/",
      "w", "a", "t", "c", "h", "/", "l", "v">>

build_streaming_url(streaming_id) == STREAMING_BASE_URL \o streaming_id

RECURSIVE DigitRunEnd(_, _)
\* the last index of the run of digits that starts at index j
DigitRunEnd(s, j) ==
    IF j < Len(s) /\ s[j + 1] \in Digits THEN DigitRunEnd(s, j + 1) ELSE j

\* the search with the pattern lv(\d): one digit taken, not the run
extract_streaming_id_one_digit(url) ==
    LET starts == {i \in 1..(Len(url) - 2) :
                      url[i] = "l" /\ url[i + 1] = "v" /\ url[i + 2] \in Digits}
    IN  IF starts = {} THEN [raised |-> TRUE, ret |-> 0]
        ELSE LET i == CHOOSE k \in starts : \A m \in starts : k <= m
             IN  [raised |-> FALSE, ret |-> DigitVal(url[i + 2])]

\* re.search(r"lv(\d+)", url): the leftmost match, its digits taken greedily
extract_streaming_id(url) ==
    LET starts == {i \in 1..(Len(url) - 2) :
                      url[i] = "l" /\ url[i + 1] = "v" /\ url[i + 2] \in Digits}
    IN  IF starts = {} THEN [raised |-> TRUE, ret |-> 0]
        ELSE LET i == CHOOSE k \in starts : \A m \in starts : k <= m
             IN  [raised |-> FALSE,
                  ret |-> DigitsVal(SubSeq(url, i + 2, DigitRunEnd(url, i + 2)))]

\* the same with the status of an ended stream in place of the HTTP code
HttpErrorData_status_ended(status_code, streaming_id) ==
    [id |-> PyInt(streaming_id),
     type |-> StreamingType.UNKNOWN,
     title |-> UNKNOWN_STREAMING_TITLE,
     start_time |-> <<SentinelDay, 0>>,
     end_time |-> <<SentinelDay, 0>>,
     duration_time |-> <<"td", 0>>,
     status |-> StreamingStatus.ENDED,
     streamer_id |-> PyInt(UNKNOWN_STREAMER_ID),
     streamer_name |-> UNKNOWN_STREAMER_NAME,
     channel_id |-> PyInt(UNKNOWN_CHANNEL_ID),
     channel_name |-> UNKNOWN_CHANNEL_NAME,
     company_name |-> UNKNOWN_COMPANY_NAME]

\* the StreamingData that save_streaming_with_http_error builds
HttpErrorData(status_code, streaming_id) ==
    [id |-> PyInt(streaming_id),
     type |-> StreamingType.UNKNOWN,
     title |-> UNKNOWN_STREAMING_TITLE,
     start_time |-> <<SentinelDay, 0>>,
     end_time |-> <<SentinelDay, 0>>,
     duration_time |-> <<"td", 0>>,
     status |-> status_code,
     streamer_id |-> PyInt(UNKNOWN_STREAMER_ID),
     streamer_name |-> UNKNOWN_STREAMER_NAME,
     channel_id |-> PyInt(UNKNOWN_CHANNEL_ID),
     channel_name |-> UNKNOWN_CHANNEL_NAME,
     company_name |-> UNKNOWN_COMPANY_NAME]

save_streaming_with_http_error(S, C, T, clk, status_code, streaming_id) ==
    save_streaming_data(S, C, T, clk, HttpErrorData(status_code, streaming_id))

\* What requests.get gives: <<"RequestException">>, or
\* <<"response", status_code, text>>.  A text is <<"empty">> (""), <<"notag">>
\* (no script tag with data-props) or <<"tag", props>>, the first such tag,
\* whose data-props is <<"blank">>, <<"badjson">> or <<"json", dict>>.
None == <<"None">>

\* What fetch_html leaves: .ret is the text, or None
Fetched(raised, error, ret, calls, db) ==
    [raised |-> raised, error |-> error, ret |-> ret, calls |-> calls,
     streamers |-> db.streamers, channels |-> db.channels,
     streamings |-> db.streamings, now |-> db.now]

\* the non-200 branch, once save_streaming_with_http_error gave r
FetchAfterSave(r) ==
    Fetched(r.raised, IF r.raised THEN "PersistenceError" ELSE "", None,
            <<"requests.get", "extract_streaming_id",
              "save_streaming_with_http_error", "save_streaming_data">>, r)

\* the non-200 branch: id is what extract_streaming_id gave
FetchNot200(S, C, T, clk, status_code, id) ==
    IF id.raised
    THEN Fetched(TRUE, "MalformedUrl", None,
                 <<"requests.get", "extract_streaming_id">>,
                 Saved(FALSE, "", S, C, T, clk))
    ELSE FetchAfterSave(
            save_streaming_with_http_error(S, C, T, clk, status_code, id.ret))

\* fetch_html if a failed request were recorded like an error page, with
\* status code 0
fetch_html_fault_as_status(S, C, T, clk, url, response) ==
    IF response[1] = "RequestException"
    THEN FetchNot200(S, C, T, clk, 0, extract_streaming_id(url))
    ELSE IF response[2] = 200
    THEN Fetched(FALSE, "", response[3], <<"requests.get">>,
                 Saved(FALSE, "", S, C, T, clk))
    ELSE FetchNot200(S, C, T, clk, response[2], extract_streaming_id(url))

\* Command.fetch_html
fetch_html(S, C, T, clk, url, response) ==
    IF response[1] = "RequestException"
    THEN Fetched(TRUE, "RequestException", None, <<"requests.get">>,
                 Saved(FALSE, "", S, C, T, clk))
    ELSE IF response[2] = 200
    THEN Fetched(FALSE, "", response[3], <<"requests.get">>,
                 Saved(FALSE, "", S, C, T, clk))
    ELSE FetchNot200(S, C, T, clk, response[2], extract_streaming_id(url))

\* soup.find("script", attrs={"data-props": True})
find_script_tag_with_data_props(html_content) ==
    IF html_content[1] = "tag"
    THEN [raised |-> FALSE, ret |-> html_content[2]]
    ELSE [raised |-> TRUE, ret |-> None]

\* json.loads of the data-props attribute
parse_data_props_to_dict(script_tag_with_data_props) ==
    IF script_tag_with_data_props[1] = "blank"
    THEN [raised |-> TRUE, error |-> "EmptyPayload", ret |-> None]
    ELSE IF script_tag_with_data_props[1] = "badjson"
    THEN [raised |-> TRUE, error |-> "InvalidJson", ret |-> None]
    ELSE [raised |-> FALSE, error |-> "", ret |-> script_tag_with_data_props[2]]

----------------------------------------------------------------------------
(* Command.handle of get_streaming_data: the single-ID pipeline.           *)

\* What handle leaves.  .calls: the methods invoked, in order; .logs: the
\* markers logged through the "streamings" logger; .raised: handle re-raised
\* the exception, wrapped
Handled(error, detail, calls, end, db) ==
    [raised |-> error # "", error |-> error, detail |-> detail,
     calls |-> calls, logs |-> <<"START", end>>,
     streamers |-> db.streamers, channels |-> db.channels,
     streamings |-> db.streamings, now |-> db.now]

CallsToFetch == <<"build_streaming_url", "get_default_headers", "fetch_html">>

\* r is what save_streaming_data gave
HandleAfterSave(calls, r) ==
    IF r.raised THEN Handled("PersistenceError", r.stage, calls, "ERROR", r)
    ELSE Handled("", "", calls, "END_SAVED", r)

\* handle if a page that cannot be normalized were recorded like a missing
\* page, with the sentinel row of stream 0
HandleAfterExtract_sentinel(db, calls, x) ==
    IF x.raised
    THEN Handled(x.error, x.detail, calls, "ERROR",
            save_streaming_with_http_error(db.streamers, db.channels,
                                           db.streamings, db.now, 0, 0))
    ELSE HandleAfterSave(calls \o <<"save_streaming_data">>,
            save_streaming_data(db.streamers, db.channels, db.streamings,
                                db.now, x.data))

\* x is what extract_streaming_data gave
HandleAfterExtract(db, calls, x) ==
    IF x.raised THEN Handled(x.error, x.detail, calls, "ERROR", db)
    ELSE HandleAfterSave(calls \o <<"save_streaming_data">>,
            save_streaming_data(db.streamers, db.channels, db.streamings,
                                db.now, x.data))

\* handle if the normalizer were invoked whatever the decoding gave
HandleAfterParse_go_on(db, calls, dict) ==
    HandleAfterExtract(db, calls \o <<"extract_streaming_data">>,
        IF dict.raised THEN Failed(dict.error, "")
        ELSE extract_streaming_data(dict.ret))

\* dict is what parse_data_props_to_dict gave
HandleAfterParse(db, calls, dict) ==
    IF dict.raised THEN Handled(dict.error, "", calls, "ERROR", db)
    ELSE HandleAfterExtract(db, calls \o <<"extract_streaming_data">>,
            extract_streaming_data(dict.ret))

\* tag is what find_script_tag_with_data_props gave
HandleAfterFind(db, calls, tag) ==
    IF tag.raised THEN Handled("EmbeddedDataNotFound", "", calls, "ERROR", db)
    ELSE HandleAfterParse(db, calls \o <<"parse_data_props_to_dict">>,
            parse_data_props_to_dict(tag.ret))

\* handle without its "if not html_content" return: the search for the
\* script tag runs on whatever fetch_html gave
HandleAfterFetch_without_return(f) ==
    IF f.raised THEN Handled(f.error, "", CallsToFetch \o f.calls, "ERROR", f)
    ELSE HandleAfterFind(f,
            CallsToFetch \o f.calls \o <<"find_script_tag_with_data_props">>,
            find_script_tag_with_data_props(f.ret))

\* f is what fetch_html gave; "not html_content" holds of None and of ""
HandleAfterFetch(f) ==
    IF f.raised THEN Handled(f.error, "", CallsToFetch \o f.calls, "ERROR", f)
    ELSE IF f.ret = None \/ f.ret = <<"empty">>
    THEN Handled("", "", CallsToFetch \o f.calls, "END_NOT_FOUND", f)
    ELSE HandleAfterFind(f,
            CallsToFetch \o f.calls \o <<"find_script_tag_with_data_props">>,
            find_script_tag_with_data_props(f.ret))

\* Command.handle
handle(S, C, T, clk, streaming_id, response) ==
    HandleAfterFetch(
        fetch_html(S, C, T, clk, build_streaming_url(streaming_id), response))

----------------------------------------------------------------------------
(* get_streaming_data_range.                                               *)

DigitChar(n) ==
    CASE n = 0 -> "0" [] n = 1 -> "1" [] n = 2 -> "2" [] n = 3 -> "3"
      [] n = 4 -> "4" [] n = 5 -> "5" [] n = 6 -> "6" [] n = 7 -> "7"
      [] n = 8 -> "8" [] n = 9 -> "9"

RECURSIVE NatStr(_)
NatStr(n) ==
    IF n < 10 THEN <<DigitChar(n)>>
    ELSE NatStr(n \div 10) \o <<DigitChar(n % 10)>>

\* str(n) of an int
str(n) == IF n < 0 THEN <<"-">> \o NatStr(0 - n) ELSE NatStr(n)

\* validate_ids with "end_id or 0": an omitted end_id becomes 0
validate_ids_default_zero(start_id, end_id) ==
    LET end == IF end_id = None THEN 0 ELSE end_id[2]
    IN  [raised |-> start_id > end, start_id |-> start_id, end_id |-> end]

\* Command.validate_ids: end_id is None or <<"int", n>>;
\* "end_id or start_id" takes start_id for every falsy end_id
validate_ids(start_id, end_id) ==
    LET end == IF end_id = None \/ end_id[2] = 0 THEN start_id ELSE end_id[2]
    IN  IF start_id > end
        THEN [raised |-> TRUE, start_id |-> start_id, end_id |-> end]
        ELSE [raised |-> FALSE, start_id |-> start_id, end_id |-> end]

----------------------------------------------------------------------------
(* Inputs.                                                                 *)

LongName == "a name of 17 char"
LongTitle ==
    "0123456789012345678901234567890123456789012345678901234567890123456789012345678901234567890123456789x"

StreamerIdInputs == {UNKNOWN_STREAMER_ID, 7}
StreamerNameInputs == {"A", "B", LongName}

ChannelIdInputs == {UNKNOWN_CHANNEL_ID, 5}
ChannelInputs == {<<"C", "K">>, <<"D", "K">>, <<"C", "L">>}

UnknownChannel == <<UNKNOWN_CHANNEL_NAME, UNKNOWN_COMPANY_NAME>>

\* StreamingData values as the tests build them by hand
Body1 ==
    [type |-> StreamingType.USER, title |-> "T1",
     start_time |-> <<0, 100>>, end_time |-> <<0, 160>>,
     duration_time |-> <<"td", 60>>, status |-> StreamingStatus.ON_AIR]

Body2 ==
    [type |-> StreamingType.CHANNEL, title |-> "T2",
     start_time |-> <<0, 100>>, end_time |-> <<0, 220>>,
     duration_time |-> <<"td", 120>>, status |-> StreamingStatus.ENDED]

LongTitleBody == [Body1 EXCEPT !.title = LongTitle]

StreamingData(id, body, streamer_id, streamer_name, channel_id, channel) ==
    [id |-> id, type |-> body.type, title |-> body.title,
     start_time |-> body.start_time, end_time |-> body.end_time,
     duration_time |-> body.duration_time, status |-> body.status,
     streamer_id |-> streamer_id, streamer_name |-> streamer_name,
     channel_id |-> channel_id, channel_name |-> channel[1],
     company_name |-> channel[2]]

\* for save_streaming_data
StreamingDataInputs ==
    {StreamingData(PyInt(1), Body1, PyInt(7), "A",
                   PyInt(UNKNOWN_CHANNEL_ID), UnknownChannel),
     StreamingData(PyInt(1), Body2, PyInt(7), "B", PyStr(<<"5">>), <<"C", "K">>),
     StreamingData(PyStr(<<"1">>), Body2, PyStr(<<"7">>), "A", PyInt(5),
                   <<"D", "K">>),
     StreamingData(PyStr(<<"2">>), Body1, PyInt(7), "A",
                   PyInt(UNKNOWN_CHANNEL_ID), UnknownChannel),
     StreamingData(PyInt(2), Body2, PyInt(UNKNOWN_STREAMER_ID), "B", PyInt(5),
                   <<"C", "K">>),
     \* the streaming upsert fails: the title is too long, the id no number
     StreamingData(PyInt(1), LongTitleBody, PyInt(7), "B", PyInt(5),
                   <<"D", "K">>),
     StreamingData(PyStr(<<"l", "v", "1">>), Body1, PyInt(7), "B", PyInt(5),
                   <<"D", "K">>),
     \* the channel upsert fails
     StreamingData(PyInt(1), Body1, PyInt(7), "B", PyInt(5), <<LongTitle, "K">>),
     \* the streamer lookup fails
     StreamingData(PyInt(1), Body1, PyStr(<<"x">>), "A", PyInt(5), <<"C", "K">>)}

\* for save_or_update_streaming, which reads the id and the body only
StreamingUpsertInputs ==
    {StreamingData(id, body, PyInt(7), "A", PyInt(UNKNOWN_CHANNEL_ID),
                   UnknownChannel) :
        id \in {PyInt(1), PyStr(<<"2">>)}, body \in {Body1, Body2}}
    \cup {StreamingData(PyInt(1), LongTitleBody, PyInt(7), "A",
                        PyInt(UNKNOWN_CHANNEL_ID), UnknownChannel)}

\* for save_streaming_with_http_error: <<status_code, streaming_id>>
HttpErrorInputs == {<<404, 1>>, <<500, 1>>, <<404, 2>>}

\* decoded data-props mappings
CommunityProgram ==
    [nicoliveProgramId |-> <<"l", "v", "1">>, title |-> "T1",
     beginTime |-> 86500, endTime |-> 90160, status |-> "ENDED",
     providerType |-> "community",
     supplier |-> [name |-> "A", programProviderId |-> <<"7">>]]

ChannelProgram ==
    [nicoliveProgramId |-> <<"l", "v", "2">>, title |-> "T2",
     beginTime |-> 100, endTime |-> 100, status |-> "ON_AIR",
     providerType |-> "channel"]

SocialGroup == [id |-> <<"c", "h", "5">>, name |-> "C", companyName |-> "K"]

\* a mapping without one of its keys
Without(d, key) == [k \in DOMAIN d \ {key} |-> d[k]]

Payloads ==
    {[program |-> CommunityProgram],
     [program |-> [CommunityProgram EXCEPT
                     !.supplier = [name |-> "B", programProviderId |-> <<"7">>],
                     !.status = "RESERVED"]],
     [program |-> Without(CommunityProgram, "supplier")],
     [program |-> [CommunityProgram EXCEPT !.supplier = [name |-> "B"]]],
     [program |-> ChannelProgram, socialGroup |-> SocialGroup],
     [program |-> [ChannelProgram EXCEPT !.providerType = "official"],
      socialGroup |-> [SocialGroup EXCEPT !.name = "D"]],
     [program |-> Without(CommunityProgram, "beginTime")],
     [program |-> Without(Without(CommunityProgram, "providerType"),
                          "nicoliveProgramId")],
     [program |-> ChannelProgram],
     [program |-> [CommunityProgram EXCEPT !.status = "UNKNOWN_STATUS"]],
     [program |-> [CommunityProgram EXCEPT !.providerType = "user"]],
     [program |-> [CommunityProgram EXCEPT !.endTime = 86499]],
     [program |-> [CommunityProgram EXCEPT
                     !.supplier = [name |-> LongName,
                                   programProviderId |-> <<"7">>]]],
     [program |-> ChannelProgram,
      socialGroup |-> [SocialGroup EXCEPT !.id = <<"c", "h", "x">>]],
     [program |-> [CommunityProgram EXCEPT !.title = LongTitle]]}

HttpStatusInputs == {404, 500}

Responses ==
    {<<"RequestException">>}
    \cup {<<"response", code, <<"notag">>>> : code \in HttpStatusInputs}
    \cup {<<"response", 200, text>> :
            text \in {<<"empty">>, <<"notag">>, <<"tag", <<"blank">>>>,
                      <<"tag", <<"badjson">>>>}}
    \cup {<<"response", 200, <<"tag", <<"json", p>>>>>> : p \in Payloads}

\* the single-ID command's argument (type=str) with what the site answers:
\* every answer for id 1; for id 2 an error page, its own page and the page
\* of stream 1; for a malformed id an error page and a page
HandleInputs ==
    {<<<<"1">>, response>> : response \in Responses}
    \cup {<<<<"2">>, response>> :
            response \in {<<"response", 404, <<"notag">>>>,
                          <<"response", 200,
                            <<"tag", <<"json", [program |-> CommunityProgram]>>>>>>,
                          <<"response", 200,
                            <<"tag", <<"json", [program |-> ChannelProgram,
                                               socialGroup |-> SocialGroup]>>>>>>}}
    \cup {<<<<"x">>, response>> :
            response \in {<<"response", 404, <<"notag">>>>,
                          <<"response", 200,
                            <<"tag", <<"json", [program |-> CommunityProgram]>>>>>>}}

\* the range command's arguments (type=int; end_id optional)
StartIdInputs == {1, 2}
EndIdInputs == {None, PyInt(0), PyInt(1), PyInt(2)}

----------------------------------------------------------------------------
(* Observation of the last operation.                                      *)

Obs(op, args, ret, raised) ==
    [op |-> op, args |-> args, ret |-> ret, raised |-> raised,
     error |-> "", detail |-> "", calls |-> <<>>, logs |-> <<>>]

\* what the site answered: the status code, 0 when the request failed
StatusOf(response) == IF response[1] = "response" THEN response[2] ELSE 0

HandleObs(streaming_id, response, h) ==
    [op |-> "handle", args |-> <<streaming_id, StatusOf(response)>>, ret |-> 0,
     raised |-> h.raised, error |-> h.error, detail |-> h.detail,
     calls |-> h.calls, logs |-> h.logs]

\* The two processes that call the persistence methods at the same time, and
\* a process that has no call under way.  .op, .data, .sid, .name: the method
\* called and its arguments; .seen: the Streamer rows of .sid when the call
\* began; .latest, .found: what the method's last read returned;
\* .streamer, .channel: the primary keys of the rows the sub-operations
\* returned
Procs == {1, 2}
Resting ==
    [pc |-> "idle", op |-> "", data |-> <<>>, sid |-> 0, name |-> "",
     seen |-> {}, latest |-> {}, found |-> {}, streamer |-> 0, channel |-> 0]

\* The range command's run.  .args: its arguments as given; .start_id,
\* .end_id: what validate_ids returned; .cur: the loop variable; .called: the
\* ids the single-ID command was run for; .logs: the entries logged,
\* <<"START">>, <<"ERROR", id, text of the exception>>, <<"END">>
Idle == [pc |-> "idle", args |-> <<>>, start_id |-> 0, end_id |-> 0, cur |-> 0,
         called |-> <<>>, logs |-> <<>>]

\* no range run is under way: the process is free for another command
Free == rng.pc # "loop" /\ ops < MaxOps

----------------------------------------------------------------------------
(* Direct calls of the persistence methods, as the integration tests make  *)
(* them.                                                                   *)

CallSaveOrGetStreamer(streamer_id, streamer_name) ==
    LET r == save_or_get_streamer(streamers, now, streamer_id, streamer_name)
    IN  /\ Free
        /\ streamers' = r.streamers
        /\ now' = r.now
        /\ last' = Obs("save_or_get_streamer", <<streamer_id, streamer_name>>,
                       r.ret, r.raised)
        /\ ops' = ops + 1
        /\ UNCHANGED <<channels, streamings, rng, procs>>

CallCreateOrUpdateChannel(channel_id, channel_name, company_name) ==
    LET r == create_or_update_channel(channels, channel_id, channel_name,
                                      company_name)
    IN  /\ Free
        /\ channels' = r.channels
        /\ last' = [Obs("create_or_update_channel",
                        <<channel_id, channel_name, company_name>>,
                        r.ret, r.raised)
                      EXCEPT !.detail = IF r.raised THEN ""
                                        ELSE IF r.created THEN "created"
                                        ELSE "updated"]
        /\ ops' = ops + 1
        /\ UNCHANGED <<streamers, streamings, now, rng, procs>>

CallSaveOrUpdateStreaming(streaming_data, streamer, channel) ==
    LET r == save_or_update_streaming(streamings, streaming_data, streamer.id,
                                      channel.id)
    IN  /\ Free
        /\ streamings' = r.streamings
        /\ last' = [Obs("save_or_update_streaming",
                        <<streaming_data, streamer.id, channel.id>>, 0,
                        r.raised)
                      EXCEPT !.detail = IF r.raised THEN ""
                                        ELSE IF r.created THEN "created"
                                        ELSE "updated"]
        /\ ops' = ops + 1
        /\ UNCHANGED <<streamers, channels, now, rng, procs>>

\* the tables and the clock become what r holds
Commit(r) ==
    /\ streamers' = r.streamers
    /\ channels' = r.channels
    /\ streamings' = r.streamings
    /\ now' = r.now

SaveStreamingDataDone(streaming_data, r) ==
    /\ Commit(r)
    /\ last' = [Obs("save_streaming_data", <<streaming_data>>, 0, r.raised)
                  EXCEPT !.detail = r.stage]

CallSaveStreamingData(streaming_data) ==
    /\ Free
    /\ SaveStreamingDataDone(streaming_data,
          save_streaming_data(streamers, channels, streamings, now,
                              streaming_data))
    /\ ops' = ops + 1
    /\ UNCHANGED <<rng, procs>>

SaveStreamingWithHttpErrorDone(status_code, streaming_id, r) ==
    /\ Commit(r)
    /\ last' = [Obs("save_streaming_with_http_error",
                    <<status_code, streaming_id>>, 0, r.raised)
                  EXCEPT !.detail = r.stage]

CallSaveStreamingWithHttpError(status_code, streaming_id) ==
    /\ Free
    /\ SaveStreamingWithHttpErrorDone(status_code, streaming_id,
          save_streaming_with_http_error(streamers, channels, streamings, now,
                                         status_code, streaming_id))
    /\ ops' = ops + 1
    /\ UNCHANGED <<rng, procs>>

----------------------------------------------------------------------------
(* Direct calls of the normalizer, as the unit tests make them.            *)

ExtractStreamingDataDone(data_props_dict, x) ==
    last' = [Obs("extract_streaming_data", <<data_props_dict>>,
                 IF x.raised THEN 0 ELSE x.data, x.raised)
               EXCEPT !.error = IF x.raised THEN x.error ELSE "",
                      !.detail = IF x.raised THEN x.detail ELSE ""]

CallExtractStreamingData(data_props_dict) ==
    /\ Free
    /\ ExtractStreamingDataDone(data_props_dict,
                                extract_streaming_data(data_props_dict))
    /\ ops' = ops + 1
    /\ UNCHANGED <<streamers, channels, streamings, now, rng, procs>>

CallConvertStreamingStatusToCode(status) ==
    LET r == convert_streaming_status_to_code(status)
    IN  /\ Free
        /\ last' = [Obs("convert_streaming_status_to_code", <<status>>, r.ret,
                        r.raised)
                      EXCEPT !.error = IF r.raised THEN "UnknownStatus" ELSE "",
                             !.detail = IF r.raised THEN status ELSE ""]
        /\ ops' = ops + 1
        /\ UNCHANGED <<streamers, channels, streamings, now, rng, procs>>

CallCalculateDuration(start_time, end_time) ==
    LET r == calculate_duration(start_time, end_time)
    IN  /\ Free
        /\ last' = [Obs("calculate_duration", <<start_time, end_time>>, r.ret,
                        r.raised)
                      EXCEPT !.error = IF r.raised THEN "InvalidTimeRange"
                                       ELSE ""]
        /\ ops' = ops + 1
        /\ UNCHANGED <<streamers, channels, streamings, now, rng, procs>>

----------------------------------------------------------------------------
(* Direct calls of the fetcher, as the unit tests make them.               *)

CallExtractStreamingId(url) ==
    LET r == extract_streaming_id(url)
    IN  /\ Free
        /\ last' = [Obs("extract_streaming_id", <<url>>, r.ret, r.raised)
                      EXCEPT !.error = IF r.raised THEN "MalformedUrl" ELSE ""]
        /\ ops' = ops + 1
        /\ UNCHANGED <<streamers, channels, streamings, now, rng, procs>>

FetchHtmlDone(url, response, f) ==
    /\ Commit(f)
    /\ last' = [Obs("fetch_html", <<url, StatusOf(response)>>, 0, f.raised)
                  EXCEPT !.error = f.error, !.calls = f.calls]

CallFetchHtml(url, response) ==
    /\ Free
    /\ FetchHtmlDone(url, response,
          fetch_html(streamers, channels, streamings, now, url, response))
    /\ ops' = ops + 1
    /\ UNCHANGED <<rng, procs>>

----------------------------------------------------------------------------
(* The commands.                                                           *)

HandleDone(streaming_id, response, h) ==
    /\ Commit(h)
    /\ last' = HandleObs(streaming_id, response, h)

\* python manage.py get_streaming_data <streaming_id>
Handle(streaming_id, response) ==
    /\ Free
    /\ HandleDone(streaming_id, response,
          handle(streamers, channels, streamings, now, streaming_id, response))
    /\ ops' = ops + 1
    /\ UNCHANGED <<rng, procs>>

\* python manage.py get_streaming_data_range <start_id> [<end_id>]:
\* Command.handle up to the loop of fetch_streaming_data_range
RangeHandle(start_id, end_id) ==
    LET v == validate_ids(start_id, end_id)
    IN  /\ Free
        /\ ~v.raised => ops + (v.end_id - v.start_id + 1) <= MaxOps
        /\ rng' = IF v.raised
                  THEN [Idle EXCEPT !.pc = "CommandError",
                                    !.args = <<start_id, end_id>>]
                  ELSE [Idle EXCEPT !.pc = "loop",
                                    !.args = <<start_id, end_id>>,
                                    !.start_id = v.start_id,
                                    !.end_id = v.end_id, !.cur = v.start_id,
                                    !.logs = <<<<"START">>>>]
        /\ last' = Obs("range", <<start_id, end_id>>, 0, v.raised)
        /\ UNCHANGED <<streamers, channels, streamings, now, ops, procs>>

\* the loop without the try/except of fetch_and_save_streaming_data: what a
\* turn raises ends the run, unlogged
RangeAdvance_abort(h) ==
    rng' = IF h.raised
           THEN [rng EXCEPT !.pc = "failed", !.called = Append(@, rng.cur)]
           ELSE IF rng.cur = rng.end_id
           THEN [rng EXCEPT !.pc = "done", !.called = Append(@, rng.cur),
                            !.logs = @ \o <<<<"END">>>>]
           ELSE [rng EXCEPT !.cur = @ + 1, !.called = Append(@, rng.cur)]

\* the loop variable and the log after a turn; what the turn raised is
\* logged with the id and the exception's text
RangeAdvance(h) ==
    LET logs == rng.logs \o (IF h.raised THEN <<<<"ERROR", rng.cur, h.error>>>>
                             ELSE <<>>)
    IN  rng' = IF rng.cur = rng.end_id
               THEN [rng EXCEPT !.pc = "done",
                                !.called = Append(@, rng.cur),
                                !.logs = logs \o <<<<"END">>>>]
               ELSE [rng EXCEPT !.cur = @ + 1,
                                !.called = Append(@, rng.cur),
                                !.logs = logs]

RangeStepDone(response, h) ==
    /\ HandleDone(str(rng.cur), response, h)
    /\ RangeAdvance(h)

\* one turn of the loop: fetch_and_save_streaming_data(cur), which runs the
\* single-ID command and logs what it raises; after the last turn, log_end
RangeStep(response) ==
    /\ rng.pc = "loop"
    /\ RangeStepDone(response,
          handle(streamers, channels, streamings, now, str(rng.cur), response))
    /\ ops' = ops + 1
    /\ UNCHANGED procs

----------------------------------------------------------------------------
(* Two processes calling the persistence methods at the same time.  Each   *)
(* ORM call is a statement or a short transaction of its own (autocommit,  *)
(* READ COMMITTED), so a step is one read or one write.                    *)
(* update_or_create is get_or_create under select_for_update followed by   *)
(* save: get() locks the row it finds until the save; when it finds none,  *)
(* the row is inserted, and only a unique constraint (IntegrityError)      *)
(* sends the caller back to get().                                         *)

\* the write of Streaming.objects.update_or_create, given what its get()
\* found: UPDATE of that row by primary key, or INSERT (streaming_id has no
\* unique constraint, so the INSERT never conflicts)
Streaming_write(T, found, streaming_data, streamer, channel) ==
    LET d == StreamingDefaults(streaming_data, streamer, channel)
        sid == int(streaming_data.id)
    IN  IF Len(streaming_data.title) > TitleMaxLength
        THEN [raised |-> TRUE, streamings |-> T]
        ELSE IF found = {}
        THEN [raised |-> FALSE,
              streamings |-> T \cup {StreamingRow(NextPk(T), sid, d)}]
        ELSE [raised |-> FALSE,
              streamings |->
                 {r \in T : r.id \notin {f.id : f \in found}}
                 \cup {StreamingRow(f.id, sid, d) : f \in found}]

\* a process may start a call
MayBegin(p) == Free /\ procs[p].pc \in {"idle", "done", "raised"}

\* process p calls save_streaming_data(streaming_data)
BeginSave(p, streaming_data) ==
    /\ MayBegin(p)
    /\ procs' = [procs EXCEPT ![p] =
          IF ~IntOk(streaming_data.streamer_id)
          THEN [Resting EXCEPT !.pc = "raised", !.op = "save_streaming_data",
                               !.data = streaming_data]
          ELSE [Resting EXCEPT
                  !.pc = "streamer_read", !.op = "save_streaming_data",
                  !.data = streaming_data,
                  !.sid = int(streaming_data.streamer_id),
                  !.name = streaming_data.streamer_name,
                  !.seen = {r \in streamers :
                              r.streamer_id = int(streaming_data.streamer_id)}]]
    /\ ops' = ops + 1
    /\ UNCHANGED <<streamers, channels, streamings, now, rng, last>>

\* process p calls save_or_get_streamer(streamer_id, streamer_name)
BeginStreamer(p, streamer_id, streamer_name) ==
    /\ MayBegin(p)
    /\ procs' = [procs EXCEPT ![p] =
          [Resting EXCEPT !.pc = "streamer_read", !.op = "save_or_get_streamer",
                          !.sid = streamer_id, !.name = streamer_name,
                          !.seen = {r \in streamers : r.streamer_id = streamer_id}]]
    /\ ops' = ops + 1
    /\ UNCHANGED <<streamers, channels, streamings, now, rng, last>>

\* save_or_get_streamer: the query for the latest row of the id
StreamerRead(p) ==
    /\ procs[p].pc = "streamer_read"
    /\ procs' = [procs EXCEPT ![p].pc = "streamer_write",
                              ![p].latest =
                                  latest_streamer(streamers, procs[p].sid)]
    /\ UNCHANGED <<streamers, channels, streamings, now, rng, ops, last>>

\* where a process goes once save_or_get_streamer returned
AfterStreamer(proc) ==
    IF proc.op = "save_or_get_streamer" THEN "done"
    ELSE IF ~IntOk(proc.data.channel_id) THEN "raised"
    ELSE "channel_get"

\* save_or_get_streamer: the comparison with the row read, and the insert
StreamerWrite(p) ==
    LET proc == procs[p]
        r == Streamer_create(streamers, now, proc.sid, proc.name)
    IN  /\ proc.pc = "streamer_write"
        /\ IF proc.latest = {} \/ (\E row \in proc.latest : row.name # proc.name)
           THEN /\ streamers' = r.streamers
                /\ now' = r.now
                /\ procs' = [procs EXCEPT
                      ![p].pc = IF r.raised THEN "raised" ELSE AfterStreamer(proc),
                      ![p].streamer = r.ret]
           ELSE /\ UNCHANGED <<streamers, now>>
                /\ procs' = [procs EXCEPT
                      ![p].pc = AfterStreamer(proc),
                      ![p].streamer = (CHOOSE row \in proc.latest : TRUE).id]
        /\ UNCHANGED <<channels, streamings, rng, ops, last>>

\* another process holds the lock of a Channel row of this channel_id
ChannelLocked(p, channel_id) ==
    \E q \in Procs \ {p} :
        /\ procs[q].pc = "channel_write"
        /\ \E row \in procs[q].found : row.channel_id = channel_id

\* create_or_update_channel: the get() of update_or_create
ChannelGet(p) ==
    LET channel_id == int(procs[p].data.channel_id)
    IN  /\ procs[p].pc = "channel_get"
        /\ ~ChannelLocked(p, channel_id)
        /\ procs' = [procs EXCEPT
              ![p].pc = "channel_write",
              ![p].found = {r \in channels : r.channel_id = channel_id}]
        /\ UNCHANGED <<streamers, channels, streamings, now, rng, ops, last>>

\* create_or_update_channel: the write of update_or_create.  channel_id is
\* unique: an insert that meets a row of the id raises IntegrityError,
\* get() is repeated and that row is updated; so the write does to the table
\* as it stands what the whole call does.
ChannelWrite(p) ==
    LET proc == procs[p]
        channel_id == int(proc.data.channel_id)
        r == create_or_update_channel(channels, channel_id,
                                      proc.data.channel_name,
                                      proc.data.company_name)
    IN  /\ proc.pc = "channel_write"
        /\ ~ChannelLocked(p, channel_id)
        /\ channels' = r.channels
        /\ procs' = [procs EXCEPT
              ![p].pc = IF r.raised \/ ~IntOk(proc.data.id) THEN "raised"
                        ELSE "streaming_get",
              ![p].found = {},
              ![p].channel = r.ret]
        /\ UNCHANGED <<streamers, streamings, now, rng, ops, last>>

\* another process holds the lock of a Streaming row of this streaming_id
StreamingLocked(p, streaming_id) ==
    \E q \in Procs \ {p} :
        /\ procs[q].pc = "streaming_write"
        /\ \E row \in procs[q].found : row.streaming_id = streaming_id

\* save_or_update_streaming: the get() of update_or_create, which raises
\* MultipleObjectsReturned on several rows
StreamingGet(p) ==
    LET streaming_id == int(procs[p].data.id)
        found == {r \in streamings : r.streaming_id = streaming_id}
    IN  /\ procs[p].pc = "streaming_get"
        /\ ~StreamingLocked(p, streaming_id)
        /\ procs' = [procs EXCEPT
              ![p].pc = IF Cardinality(found) > 1 THEN "raised"
                        ELSE "streaming_write",
              ![p].found = IF Cardinality(found) > 1 THEN {} ELSE found]
        /\ UNCHANGED <<streamers, channels, streamings, now, rng, ops, last>>

\* save_or_update_streaming: the write of update_or_create
StreamingWrite(p) ==
    LET proc == procs[p]
        r == Streaming_write(streamings, proc.found, proc.data, proc.streamer,
                             proc.channel)
    IN  /\ proc.pc = "streaming_write"
        /\ streamings' = r.streamings
        /\ procs' = [procs EXCEPT
              ![p].pc = IF r.raised THEN "raised" ELSE "done",
              ![p].found = {}]
        /\ UNCHANGED <<streamers, channels, now, rng, ops, last>>

----------------------------------------------------------------------------

Init ==
    /\ streamers = {}
    /\ channels = {}
    /\ streamings = {}
    /\ now = 0
    /\ rng = Idle
    /\ ops = 0
    /\ last = Obs("", <<>>, 0, FALSE)
    /\ procs = [p \in Procs |-> Resting]

\* the commands, run one at a time
Next ==
    \/ \E input \in HandleInputs : Handle(input[1], input[2])
    \/ \E start_id \in StartIdInputs, end_id \in EndIdInputs :
           RangeHandle(start_id, end_id)
    \/ \E response \in Responses : RangeStep(response)

Spec == Init /\ [][Next]_vars

\* the keys of "program" that extract_streaming_data reads with program[...]
RequiredKeys ==
    {"nicoliveProgramId", "title", "beginTime", "endTime", "status",
     "providerType"}

\* a mapping without some of its keys
WithoutAll(d, keys) == [k \in DOMAIN d \ keys |-> d[k]]

\* a "program" mapping of stream 1
Program(provider_type, status, begin_time, end_time) ==
    [CommunityProgram EXCEPT !.providerType = provider_type,
                             !.status = status,
                             !.beginTime = begin_time,
                             !.endTime = end_time]

\* programs of every provider type, status and time range, valid or not
ProgramInputs ==
    {Program("community", "ENDED", 86500, 90160),
     Program("community", "RESERVED", 100, 100),
     Program("community", "ON_AIR", 0, 90061),
     Program("community", "ENDED", 86500, 86499),
     Program("community", "UNKNOWN_STATUS", 86500, 90160),
     Program("user", "ENDED", 86500, 90160),
     Program("user", "UNKNOWN_STATUS", 86500, 86499),
     Program("channel", "ON_AIR", 100, 100),
     Program("channel", "ENDED", 86500, 86499),
     Program("official", "ENDED", 86500, 90160),
     Program("official", "UNKNOWN_STATUS", 86500, 90160)}

\* the programs that lose up to two of their keys
ProgramsToStrip ==
    {Program("community", "ENDED", 86500, 90160),
     Program("channel", "ON_AIR", 100, 100),
     Program("user", "UNKNOWN_STATUS", 86500, 86499)}

\* "socialGroup" of the mapping: absent (<<>>) or <<the group>>
SocialGroupInputs == {<<>>, <<SocialGroup>>, <<Without(SocialGroup, "id")>>}

DataProps(program, social) ==
    IF social = <<>> THEN [program |-> program]
    ELSE [program |-> program, socialGroup |-> social[1]]

\* decoded data-props mappings for extract_streaming_data
DataPropsInputs ==
    Payloads
    \cup {DataProps(program, social) :
            program \in ProgramInputs, social \in SocialGroupInputs}
    \cup {DataProps(WithoutAll(program, {k1, k2}), social) :
            program \in ProgramsToStrip, k1 \in RequiredKeys,
            k2 \in RequiredKeys, social \in {<<>>, <<SocialGroup>>}}

\* ids with the prefix, without it, with it twice, with it further in, and
\* the prefix alone
ProgramIdInputs ==
    {<<"l", "v", "1">>, <<"1">>, <<"l", "v", "l", "v", "1">>,
     <<"x", "l", "v", "1">>, <<"l", "v">>, <<"l">>}
SocialGroupIdInputs ==
    {<<"c", "h", "5">>, <<"5">>, <<"c", "h", "c", "h", "5">>,
     <<"5", "c", "h">>, <<"c", "h">>}

\* mappings of a community, a channel and an official stream with these ids
PrefixInputs ==
    {[program |-> [CommunityProgram EXCEPT !.nicoliveProgramId = id]] :
        id \in ProgramIdInputs}
    \cup {[program |-> [ChannelProgram EXCEPT !.nicoliveProgramId = id,
                                             !.providerType = provider_type],
           socialGroup |-> [SocialGroup EXCEPT !.id = group_id]] :
            id \in {<<"l", "v", "2">>, <<"2">>},
            provider_type \in {"channel", "official"},
            group_id \in SocialGroupIdInputs}

\* community programs whose supplier is absent, empty, partial or whole
SupplierInputs ==
    {[program |-> Without(CommunityProgram, "supplier")]}
    \cup {[program |-> [CommunityProgram EXCEPT !.supplier = supplier]] :
            supplier \in {[name |-> "B"],
                          [programProviderId |-> <<"7">>],
                          [name |-> "B", programProviderId |-> <<"8">>],
                          [nickname |-> "B"]}}

StatusInputs == StatusNames \cup {"UNKNOWN_STATUS", "ended", ""}

\* Unix timestamps, for calculate_duration
TimeInputs == {0, 59, 3600, 3661, 90061}

\* the range command's arguments and the site's answers for runs of the
\* range command alone: ranges of several ids, ids at and below 0, and an
\* answer of each kind a run can fail on
RangeArgInputs ==
    {<<1, None>>, <<1, PyInt(2)>>, <<1, PyInt(3)>>, <<2, PyInt(1)>>,
     <<0, PyInt(1)>>, <<-1, PyInt(0)>>, <<-1, PyInt(1)>>}

RangeResponses ==
    {<<"RequestException">>,
     <<"response", 404, <<"notag">>>>,
     <<"response", 200, <<"empty">>>>,
     <<"response", 200, <<"notag">>>>,
     <<"response", 200, <<"tag", <<"badjson">>>>>>,
     <<"response", 200, <<"tag", <<"json", [program |-> CommunityProgram]>>>>>>,
     <<"response", 200,
       <<"tag", <<"json", [program |-> Without(CommunityProgram, "beginTime")]>>>>>>,
     <<"response", 200,
       <<"tag", <<"json",
                  [program |-> [CommunityProgram EXCEPT !.title = LongTitle]]>>>>>>}

\* runs of the range command, one after the other
NextRange ==
    \/ \E a \in RangeArgInputs : RangeHandle(a[1], a[2])
    \/ \E response \in RangeResponses : RangeStep(response)

SpecRange == Init /\ [][NextRange]_vars

\* payloads for the pipeline: three valid ones, one for each required key
\* removed from a community and from a channel program, one for each invalid
\* value, one for each sub-operation of save_streaming_data to fail in
PipelinePayloads ==
    {[program |-> CommunityProgram],
     [program |-> [CommunityProgram EXCEPT
                     !.supplier = [name |-> "B", programProviderId |-> <<"7">>]]],
     [program |-> ChannelProgram, socialGroup |-> SocialGroup]}
    \cup {[program |-> Without(CommunityProgram, k)] : k \in RequiredKeys}
    \cup {[program |-> Without(ChannelProgram, k), socialGroup |-> SocialGroup] :
            k \in RequiredKeys}
    \cup {[program |-> [CommunityProgram EXCEPT !.status = "UNKNOWN_STATUS"]],
          [program |-> [CommunityProgram EXCEPT !.providerType = "user"]],
          [program |-> [CommunityProgram EXCEPT !.endTime = 86499]]}
    \cup {[program |-> [CommunityProgram EXCEPT
                          !.supplier = [name |-> LongName,
                                        programProviderId |-> <<"7">>]]],
          [program |-> ChannelProgram,
           socialGroup |-> [SocialGroup EXCEPT !.id = <<"c", "h", "x">>]],
          [program |-> [CommunityProgram EXCEPT !.title = LongTitle]]}

\* what the site answers: a failure at each stage of the pipeline, or none
PipelineResponses ==
    {<<"RequestException">>,
     <<"response", 404, <<"notag">>>>,
     <<"response", 500, <<"empty">>>>,
     <<"response", 200, <<"empty">>>>,
     <<"response", 200, <<"notag">>>>,
     <<"response", 200, <<"tag", <<"blank">>>>>>,
     <<"response", 200, <<"tag", <<"badjson">>>>>>}
    \cup {<<"response", 200, <<"tag", <<"json", p>>>>>> : p \in PipelinePayloads}

PipelineInputs ==
    {<<<<"1">>, response>> : response \in PipelineResponses}
    \cup {<<<<"2">>, <<"response", 404, <<"notag">>>>>>,
          <<<<"x">>, <<"response", 404, <<"notag">>>>>>}

\* the two commands, with a site that fails the pipeline at every stage
NextPipeline ==
    \/ \E input \in PipelineInputs : Handle(input[1], input[2])
    \/ \E a \in {<<1, None>>, <<1, PyInt(2)>>} : RangeHandle(a[1], a[2])
    \/ \E response \in PipelineResponses : RangeStep(response)

SpecPipeline == Init /\ [][NextPipeline]_vars

\* records two processes save at once: the same stream, streamer and
\* channel, with different bodies, names and channel names
ConcurrentDataInputs ==
    {StreamingData(PyInt(1), Body1, PyInt(7), "A", PyInt(5), <<"C", "K">>),
     StreamingData(PyStr(<<"1">>), Body2, PyStr(<<"7">>), "A", PyStr(<<"5">>),
                   <<"D", "K">>),
     StreamingData(PyInt(1), Body2, PyInt(7), "B", PyInt(5), <<"D", "K">>)}

\* two processes, each calling save_streaming_data or save_or_get_streamer
\* whenever it has no call under way, their reads and writes interleaved
NextConcurrent ==
    \/ \E p \in Procs, d \in ConcurrentDataInputs : BeginSave(p, d)
    \/ \E p \in Procs, name \in {"A", "B"} : BeginStreamer(p, 7, name)
    \/ \E p \in Procs : StreamerRead(p)
    \/ \E p \in Procs : StreamerWrite(p)
    \/ \E p \in Procs : ChannelGet(p)
    \/ \E p \in Procs : ChannelWrite(p)
    \/ \E p \in Procs : StreamingGet(p)
    \/ \E p \in Procs : StreamingWrite(p)

SpecConcurrent == Init /\ [][NextConcurrent]_vars

\* ids for build_streaming_url: numbers, a number with leading zeros, a
\* number followed by other characters, and ids without a leading digit
UrlIdInputs ==
    {<<"1">>, <<"1", "2">>, <<"0", "0", "7">>, <<"3", "x", "4">>,
     <<"x">>, <<"x", "5">>, <<"/">>, <<>>, <<"l", "v", "6">>}

\* URLs: those build_streaming_url makes, and short ones after the tests'
UrlInputs ==
    {build_streaming_url(id) : id \in UrlIdInputs}
    \cup {<<"w", "/">>, <<"w", "/", "a", "b", "c", "1", "2", "3">>,
          <<"w", "/", "1", "2", "3">>, <<"w", "/", "l", "v", "/">>,
          <<"l", "v", "8", "/", "l", "v", "9">>,
          <<"l", "v", "/", "l", "v", "9", "0">>}

FetchResponses ==
    {<<"RequestException">>,
     <<"response", 404, <<"notag">>>>,
     <<"response", 500, <<"empty">>>>,
     <<"response", 200, <<"notag">>>>}

\* the fetcher's methods, called one at a time
NextFetch ==
    \/ \E url \in UrlInputs : CallExtractStreamingId(url)
    \/ \E url \in UrlInputs, response \in FetchResponses :
           CallFetchHtml(url, response)

SpecFetch == Init /\ [][NextFetch]_vars

\* the normalizer and its helpers, called one at a time
NextNormalize ==
    \/ \E d \in DataPropsInputs \cup PrefixInputs \cup SupplierInputs :
           CallExtractStreamingData(d)
    \/ \E status \in StatusInputs : CallConvertStreamingStatusToCode(status)
    \/ \E start_time \in TimeInputs, end_time \in TimeInputs :
           CallCalculateDuration(start_time, end_time)

SpecNormalize == Init /\ [][NextNormalize]_vars

\* the persistence methods, called one at a time
NextStore ==
    \/ \E sid \in StreamerIdInputs, name \in StreamerNameInputs :
           CallSaveOrGetStreamer(sid, name)
    \/ \E cid \in ChannelIdInputs, ch \in ChannelInputs :
           CallCreateOrUpdateChannel(cid, ch[1], ch[2])
    \/ \E d \in StreamingUpsertInputs, s \in streamers, c \in channels :
           CallSaveOrUpdateStreaming(d, s, c)
    \/ \E d \in StreamingDataInputs : CallSaveStreamingData(d)
    \/ \E e \in HttpErrorInputs : CallSaveStreamingWithHttpError(e[1], e[2])

SpecStore == Init /\ [][NextStore]_vars

----------------------------------------------------------------------------
(* Properties of the persistence methods, checked under SpecStore.         *)

RowsOfStreamer(S, streamer_id) == {r \in S : r.streamer_id = streamer_id}
\* C1, for one pair of successive calls
C1_Step ==
    (/\ last.op = "save_or_get_streamer" /\ ~last.raised
     /\ last'.op = "save_or_get_streamer" /\ ~last'.raised
     /\ last'.args[1] = last.args[1]
     /\ Cardinality(RowsOfStreamer(streamers, last.args[1])) = 1)
    => IF last'.args[2] = last.args[2]
       THEN /\ RowsOfStreamer(streamers', last.args[1])
                  = RowsOfStreamer(streamers, last.args[1])
            /\ last'.ret = last.ret
       ELSE /\ Cardinality(RowsOfStreamer(streamers', last.args[1])) = 2
            /\ \E a \in streamers', b \in streamers' :
                  /\ a.id = last.ret /\ a.name = last.args[2]
                  /\ b.id = last'.ret /\ b.name = last'.args[2]
                  /\ b.created_at > a.created_at

\* C1: rename-history append law.  Two successive save_or_get_streamer calls
\* for one streamer id, the id holding one row after the first: the same
\* name again leaves that one row and returns it again; another name leaves
\* exactly two rows and returns the new one, which carries the new name and
\* a strictly later created_at than the row the first call returned.
C1_RenameHistoryAppend == [][C1_Step]_vars

\* names A then B for streamer 7: two rows, the B row returned
C1_Witness ==
    /\ last.op = "save_or_get_streamer" /\ last.args = <<7, "B">>
    /\ ops = 2
    /\ {r.name : r \in RowsOfStreamer(streamers, 7)} = {"A", "B"}
    /\ \E b \in streamers : b.id = last.ret /\ b.name = "B"

\* C2 as stated: the Streamer table holds at most one row per pair of
\* streamer id and name.
C2_OneRowPerIdAndName ==
    \A a, b \in streamers :
        (a.streamer_id = b.streamer_id /\ a.name = b.name) => a = b

\* C2, amended: two rows of one streamer id with the same name are never
\* neighbours in creation order; a row of the id with another name was
\* created between them.
C2_NoRepeatWithoutRename ==
    \A a, b \in streamers :
        (/\ a.streamer_id = b.streamer_id /\ a.name = b.name
         /\ a.created_at < b.created_at)
        => \E c \in streamers :
              /\ c.streamer_id = a.streamer_id /\ c.name # a.name
              /\ a.created_at < c.created_at /\ c.created_at < b.created_at

\* names A, B, A for streamer 7: three rows, two of them named A
C2_Witness ==
    /\ last.op = "save_or_get_streamer" /\ last.args = <<7, "A">>
    /\ Cardinality(RowsOfStreamer(streamers, 7)) = 3
    /\ Cardinality({r \in streamers : r.streamer_id = 7 /\ r.name = "A"}) = 2

SaveOps ==
    {"save_streaming_data", "save_or_update_streaming",
     "save_streaming_with_http_error"}

\* the streaming id a call of SaveOps was made for
SavedId(o) ==
    IF o.op = "save_streaming_with_http_error" THEN o.args[2]
    ELSE int(o.args[1].id)

\* C4: no two Streaming rows share a streaming_id; a save that returned
\* leaves exactly one row with its id
C4_Inv ==
    /\ \A a, b \in streamings : a.streaming_id = b.streaming_id => a = b
    /\ (last.op \in SaveOps /\ ~last.raised)
       => Cardinality({r \in streamings : r.streaming_id = SavedId(last)}) = 1

\* C4: an id that has a row keeps having one
C4_Step ==
    \A r \in streamings : \E q \in streamings' : q.streaming_id = r.streaming_id

\* C4: after any sequence of save_streaming_data, save_or_update_streaming
\* and sentinel saves made one at a time, the Streaming table holds exactly
\* one row for every streaming id ever saved, and no two rows share a
\* streaming_id.
C4_OneRowPerStreamingId == []C4_Inv /\ [][C4_Step]_vars

\* stream 1 saved, stream 2 saved from a page, then stream 1 saved again as
\* a 404 sentinel over its row
C4_Witness ==
    /\ last.op = "save_streaming_with_http_error" /\ last.args = <<404, 1>>
    /\ ops = 3
    /\ \E a \in streamings, b \in streamings :
          /\ a.id = 1 /\ a.streaming_id = 1 /\ a.status = 404
          /\ b.id = 2 /\ b.streaming_id = 2 /\ b.status \in {20, 30}
    /\ Cardinality(streamings) = 2
\* C5, for one call
C5_Step ==
    (/\ last'.op = "save_or_update_streaming" /\ ~last'.raised
     /\ \E r \in streamings : r.streaming_id = int(last'.args[1].id))
    => \E old \in streamings :
          /\ old.streaming_id = int(last'.args[1].id)
          /\ streamings' =
                (streamings \ {old}) \cup
                {[id |-> old.id,
                  streaming_id |-> old.streaming_id,
                  type |-> last'.args[1].type,
                  title |-> last'.args[1].title,
                  start_time |-> last'.args[1].start_time,
                  end_time |-> last'.args[1].end_time,
                  duration_time |-> ToInterval(last'.args[1].duration_time),
                  status |-> last'.args[1].status,
                  streamer |-> last'.args[2],
                  channel |-> last'.args[3]]}

\* C5: save_or_update_streaming on a streaming id that has a row overwrites
\* the whole record: the row keeps its primary key and streaming_id, every
\* other field (type, title, start_time, end_time, duration_time, status,
\* streamer, channel) is the latest call's, and no other row changes.
C5_WholeRecordOverwrite == [][C5_Step]_vars

\* stream 1 saved with streamer row 1, then overwritten with another body
\* and streamer row 2
C5_Witness ==
    /\ last.op = "save_or_update_streaming" /\ last.detail = "updated"
    /\ last.args[2] = 2
    /\ \E r \in streamings :
          /\ r.id = 1 /\ r.streaming_id = 1 /\ r.streamer = 2
          /\ r.title = "T2" /\ r.duration_time = 120

\* C6: once a call of create_or_update_channel returned
C6_Step ==
    (last'.op = "create_or_update_channel" /\ ~last'.raised)
    => IF \E o \in channels : o.channel_id = last'.args[1]
       THEN \E o \in channels :
               /\ o.channel_id = last'.args[1]
               /\ last'.ret = o.id
               /\ channels' =
                     (channels \ {o}) \cup
                     {[id |-> o.id, channel_id |-> o.channel_id,
                       name |-> last'.args[2],
                       company_name |-> last'.args[3]]}
       ELSE \E n \in channels' :
               /\ n.id \notin {o.id : o \in channels}
               /\ last'.ret = n.id
               /\ n.channel_id = last'.args[1]
               /\ n.name = last'.args[2]
               /\ n.company_name = last'.args[3]
               /\ channels' = channels \cup {n}

\* C6: create_or_update_channel keeps one Channel row per channel id.  No
\* two rows share a channel_id; a call for an id that has a row returns that
\* row, with the same primary key, holding the call's name and company name,
\* and adds no row (so a call with the same arguments again changes
\* nothing); a call for a new id adds one row.
C6_OneRowPerChannelId ==
    /\ [](\A a, b \in channels : a.channel_id = b.channel_id => a = b)
    /\ [][C6_Step]_vars

\* channel 5 created, then renamed in place to "D"
C6_Witness ==
    /\ last.op = "create_or_update_channel" /\ last.detail = "updated"
    /\ last.args = <<5, "D", "K">> /\ last.ret = 1
    /\ \E r \in channels : r.id = 1 /\ r.channel_id = 5 /\ r.name = "D"
    /\ Cardinality(channels) = 1

----------------------------------------------------------------------------
(* Properties of the commands, checked under Spec.                         *)
\* C3, for one step of a run
C3_Step ==
    /\ streamers \subseteq streamers'
    /\ \A r \in streamers' \ streamers :
          \A q \in streamers :
              (/\ q.streamer_id = r.streamer_id
               /\ \A p \in streamers :
                     p.streamer_id = q.streamer_id
                     => p.created_at <= q.created_at)
              => q.name # r.name

\* C3: Streamer rows are append-only under the single-ID and range runs.
\* Every step keeps every row as it is, and a row it adds is for a streamer
\* id that had no row or whose most recently created row has another name.
C3_StreamersAppendOnly == [][C3_Step]_vars

\* streamer 7 seen as "A", then as "B", then the sentinel streamer saved
C3_Witness ==
    /\ last.op = "handle" /\ last.args[2] = 404
    /\ {r.name : r \in RowsOfStreamer(streamers, 7)} = {"A", "B"}
    /\ Cardinality(streamers) = 3

\* the last operation was the single-ID command, for a numeric id, and the
\* site answered with a status code other than 200
Not200 ==
    /\ last.op = "handle"
    /\ last.args[2] \notin {0, 200}
    /\ IsDigits(last.args[1])

\* C7: after a fetch for stream id X answered with a status code other than
\* 200, the Streaming table holds exactly one row with streaming_id X; its
\* status is that code, its title the sentinel title, its type UNKNOWN, its
\* start and end 2007-12-25 00:00 UTC, its duration zero, and it refers to
\* the sentinel Streamer row and the sentinel Channel row.
C7_SentinelRow ==
    Not200 =>
    LET rows == {r \in streamings : r.streaming_id = DigitsVal(last.args[1])}
    IN  /\ Cardinality(rows) = 1
        /\ \A r \in rows :
              /\ r.status = last.args[2]
              /\ r.title = UNKNOWN_STREAMING_TITLE
              /\ r.type = StreamingType.UNKNOWN
              /\ r.start_time = <<SentinelDay, 0>>
              /\ r.end_time = <<SentinelDay, 0>>
              /\ r.duration_time = 0
              /\ \E st \in streamers :
                    /\ st.id = r.streamer
                    /\ st.streamer_id = UNKNOWN_STREAMER_ID
                    /\ st.name = UNKNOWN_STREAMER_NAME
              /\ \E ch \in channels :
                    /\ ch.id = r.channel
                    /\ ch.channel_id = UNKNOWN_CHANNEL_ID
                    /\ ch.name = UNKNOWN_CHANNEL_NAME
                    /\ ch.company_name = UNKNOWN_COMPANY_NAME

\* stream 1 saved from its page, then answered with a 500: its row became
\* the sentinel row
C7_Witness ==
    /\ Not200 /\ last.args = <<<<"1">>, 500>>
    /\ ops = 2
    /\ \E r \in streamings : r.id = 1 /\ r.streaming_id = 1 /\ r.status = 500
    /\ \E st \in streamers : st.streamer_id = 7

\* how often a method is among those a run of handle invoked
Invocations(calls, method) ==
    Cardinality({i \in DOMAIN calls : calls[i] = method})

\* C8, for one run of the single-ID command
C8_Step ==
    (Not200)' =>
    LET f == fetch_html(streamers, channels, streamings, now,
                        build_streaming_url(last'.args[1]),
                        <<"response", last'.args[2], <<"notag">>>>)
    IN  /\ ~f.raised /\ f.ret = None
        /\ ~last'.raised
        /\ last'.logs = <<"START", "END_NOT_FOUND">>
        /\ \A m \in {"find_script_tag_with_data_props",
                     "parse_data_props_to_dict", "extract_streaming_data"} :
              Invocations(last'.calls, m) = 0
        /\ Invocations(last'.calls, "save_streaming_data") = 1
        /\ rng.pc = "loop" => rng'.logs \in {rng.logs, rng.logs \o <<<<"END">>>>}

C9_InvalidRangeRejected ==
    (/\ rng.pc # "idle"
     /\ rng.args[2] # None
     /\ rng.args[1] > rng.args[2][2])
    => /\ rng.pc = "CommandError"
       /\ rng.logs = <<>>
       /\ rng.called = <<>>

\* C10: with end_id omitted the range command runs as with end_id =
\* start_id.  validate_ids returns (start_id, start_id), as it does for
\* end_id = start_id, and the single-ID command is run exactly once, for
\* start_id.
C10_OmittedEndId ==
    (rng.pc # "idle" /\ rng.args[2] = None)
    => /\ rng.pc \in {"loop", "done"}
       /\ rng.start_id = rng.args[1] /\ rng.end_id = rng.args[1]
       /\ validate_ids(rng.args[1], None)
             = validate_ids(rng.args[1], PyInt(rng.args[1]))
       /\ rng.pc = "loop" => rng.cur = rng.args[1] /\ rng.called = <<>>
       /\ rng.pc = "done" => rng.called = <<rng.args[1]>>

\* the range command given 2 alone has run to its end
C10_Witness ==
    /\ rng.pc = "done" /\ rng.args = <<2, None>>
    /\ rng.called = <<2>>
    /\ last.op = "handle" /\ last.args[1] = <<"2">>

----------------------------------------------------------------------------
(* Properties of the range command, checked under SpecRange.               *)

\* the ids from a up to and including b, ascending
Ascending(a, b) ==
    IF b < a THEN <<>> ELSE [i \in 1..(b - a + 1) |-> a + i - 1]

\* C11: for a range given with start_id <= end_id, the range command runs
\* the single-ID command once for each id of start_id..end_id, in ascending
\* order and one run after the other: while the loop runs, the ids done are
\* those below the loop variable; at its end, all of start_id..end_id.
C11_EveryIdOnceAscending ==
    (/\ rng.pc # "idle"
     /\ rng.args[2] # None
     /\ rng.args[1] <= rng.args[2][2])
    => /\ rng.pc \in {"loop", "done"}
       /\ rng.pc = "loop"
          => /\ rng.cur \in rng.args[1]..rng.args[2][2]
             /\ rng.called = Ascending(rng.args[1], rng.cur - 1)
       /\ rng.pc = "done"
          => rng.called = Ascending(rng.args[1], rng.args[2][2])

\* how many entries of a log are errors
Errors(logs) == Cardinality({i \in DOMAIN logs : logs[i][1] = "ERROR"})

\* C12, for one turn of the loop
C12_Step ==
    rng.pc = "loop" =>
    LET logged == IF last'.raised
                  THEN rng.logs \o <<<<"ERROR", rng.cur, last'.error>>>>
                  ELSE rng.logs
    IN  /\ last'.op = "handle" /\ last'.args[1] = str(rng.cur)
        /\ rng'.called = Append(rng.called, rng.cur)
        /\ IF rng.cur < rng.end_id
           THEN rng'.pc = "loop" /\ rng'.cur = rng.cur + 1 /\ rng'.logs = logged
           ELSE rng'.pc = "done" /\ rng'.logs = logged \o <<<<"END">>>>

\* C12: batch fault isolation.  What the single-ID command raises for an id
\* is logged with the id and the error; the loop goes on to the next id all
\* the same and runs no id twice; a run that started ends with the start
\* entry first and the end entry last in its log, however many ids failed.
C12_FaultIsolation ==
    /\ [][C12_Step]_vars
    /\ [](rng.pc = "done"
          => /\ rng.logs[1] = <<"START">>
             /\ rng.logs[Len(rng.logs)] = <<"END">>
             /\ rng.called = Ascending(rng.start_id, rng.end_id)
             /\ Len(rng.logs) = 2 + Errors(rng.logs))

\* a run over 1..3 of which every id failed, each in its own way
C12_Witness ==
    /\ rng.pc = "done" /\ rng.called = <<1, 2, 3>>
    /\ rng.logs = <<<<"START">>, <<"ERROR", 1, "RequestException">>,
                    <<"ERROR", 2, "MissingField">>,
                    <<"ERROR", 3, "PersistenceError">>, <<"END">>>>

----------------------------------------------------------------------------
(* Properties of the normalizer, checked under SpecNormalize.              *)

\* the mapping extract_streaming_data was last called with
Extracted == last.op = "extract_streaming_data"
GivenProps == last.args[1]
GivenProgram == GivenProps["program"]

\* the first of the six required keys, in the order nicoliveProgramId, title,
\* beginTime, endTime, status, providerType, that a program lacks; "" if none
FirstAbsent(program) ==
    IF ~Has(program, "nicoliveProgramId") THEN "nicoliveProgramId"
    ELSE IF ~Has(program, "title") THEN "title"
    ELSE IF ~Has(program, "beginTime") THEN "beginTime"
    ELSE IF ~Has(program, "endTime") THEN "endTime"
    ELSE IF ~Has(program, "status") THEN "status"
    ELSE IF ~Has(program, "providerType") THEN "providerType"
    ELSE ""

\* C13: missing-field precedence.  When "program" lacks required keys, the
\* error names the first absent one in the order nicoliveProgramId, title,
\* beginTime, endTime, status, providerType; a key of socialGroup (or
\* socialGroup itself) is named only when all six are present.
C13_MissingFieldPrecedence ==
    (Extracted /\ Has(GivenProps, "program"))
    => /\ FirstAbsent(GivenProgram) # ""
          => /\ last.raised /\ last.error = "MissingField"
             /\ last.detail = FirstAbsent(GivenProgram)
       /\ (/\ last.raised /\ last.error = "MissingField"
           /\ last.detail \in {"socialGroup", "id", "name", "companyName"})
          => FirstAbsent(GivenProgram) = ""

\* the seconds an "HH:MM:SS" duration stands for
Seconds(hms) == hms[2] * 3600 + hms[3] * 60 + hms[4]

\* a duration of hours, minutes below 60 and seconds below 60
IsDuration(hms) ==
    /\ hms[1] = "hms" /\ hms[2] >= 0
    /\ hms[3] \in 0..59 /\ hms[4] \in 0..59

\* datetime a is not before datetime b
AtOrAfter(a, b) == a[1] > b[1] \/ (a[1] = b[1] /\ a[2] >= b[2])

\* a mapping with every key the normalizer needs, a known status and a
\* known provider type: nothing but its time range can be wrong
ValidButForTimes(props) ==
    /\ Has(props, "program")
    /\ FirstAbsent(props["program"]) = ""
    /\ props["program"]["status"] \in {"RESERVED", "ON_AIR", "ENDED"}
    /\ \/ props["program"]["providerType"] = "community"
       \/ /\ props["program"]["providerType"] \in {"channel", "official"}
          /\ Has(props, "socialGroup")
          /\ {"id", "name", "companyName"} \subseteq DOMAIN props["socialGroup"]

\* C15: duration invariant.  A record the normalizer returns has a duration
\* of hours, minutes (< 60) and seconds (< 60) equal to endTime - beginTime
\* and an end_time not before its start_time; equal times give the valid
\* duration zero; endTime < beginTime never gives a record but the
\* invalid-time-range error.  calculate_duration alone behaves the same.
C15_DurationInvariant ==
    /\ (Extracted /\ ~last.raised)
       => /\ GivenProgram["endTime"] >= GivenProgram["beginTime"]
          /\ IsDuration(last.ret.duration_time)
          /\ Seconds(last.ret.duration_time)
                = GivenProgram["endTime"] - GivenProgram["beginTime"]
          /\ AtOrAfter(last.ret.end_time, last.ret.start_time)
    /\ (/\ Extracted /\ ValidButForTimes(GivenProps))
       => IF GivenProgram["endTime"] < GivenProgram["beginTime"]
          THEN last.raised /\ last.error = "InvalidTimeRange"
          ELSE ~last.raised
    /\ (/\ Extracted /\ Has(GivenProps, "program")
        /\ Has(GivenProgram, "beginTime") /\ Has(GivenProgram, "endTime")
        /\ GivenProgram["endTime"] < GivenProgram["beginTime"])
       => last.raised
    /\ last.op = "calculate_duration"
       => IF last.args[2] < last.args[1]
          THEN last.raised /\ last.error = "InvalidTimeRange"
          ELSE /\ ~last.raised /\ IsDuration(last.ret)
               /\ Seconds(last.ret) = last.args[2] - last.args[1]

\* a record for a stream of 25 hours, 1 minute and 1 second
C15_Witness ==
    /\ Extracted /\ ~last.raised
    /\ GivenProgram["beginTime"] = 0 /\ GivenProgram["endTime"] = 90061
    /\ last.ret.duration_time = <<"hms", 25, 1, 1>>
    /\ last.ret.start_time = <<0, 0>> /\ last.ret.end_time = <<1, 3661>>

\* C16: provider classification.  A record of a community stream has the
\* type USER, the streamer of "supplier" and the sentinel channel; one of a
\* channel stream the type CHANNEL, one of an official stream the type
\* COMPANY, both with the channel of "socialGroup" and the sentinel
\* streamer.  Any other provider type is refused with the
\* unknown-provider-type error naming it: no record has the type UNKNOWN.
C16_ProviderClassification ==
    /\ (Extracted /\ ~last.raised)
       => LET provider_type == GivenProgram["providerType"]
              supplier == Get(GivenProgram, "supplier", <<>>)
              data == last.ret
              sentinel_streamer ==
                  /\ data.streamer_id = PyInt(UNKNOWN_STREAMER_ID)
                  /\ data.streamer_name = UNKNOWN_STREAMER_NAME
              of_social ==
                  /\ data.channel_id
                        = PyStr(removeprefix(GivenProps["socialGroup"]["id"],
                                             <<"c", "h">>))
                  /\ data.channel_name = GivenProps["socialGroup"]["name"]
                  /\ data.company_name = GivenProps["socialGroup"]["companyName"]
          IN  /\ provider_type \in {"community", "channel", "official"}
              /\ data.type # StreamingType.UNKNOWN
              /\ provider_type = "community"
                 => /\ data.type = StreamingType.USER
                    /\ data.streamer_id
                          = (IF Has(supplier, "programProviderId")
                             THEN PyStr(supplier["programProviderId"])
                             ELSE PyInt(UNKNOWN_STREAMER_ID))
                    /\ data.streamer_name
                          = Get(supplier, "name", UNKNOWN_STREAMER_NAME)
                    /\ data.channel_id = PyInt(UNKNOWN_CHANNEL_ID)
                    /\ data.channel_name = UNKNOWN_CHANNEL_NAME
                    /\ data.company_name = UNKNOWN_COMPANY_NAME
              /\ provider_type = "channel"
                 => /\ data.type = StreamingType.CHANNEL
                    /\ of_social /\ sentinel_streamer
              /\ provider_type = "official"
                 => /\ data.type = StreamingType.COMPANY
                    /\ of_social /\ sentinel_streamer
    /\ (/\ Extracted /\ Has(GivenProps, "program")
        /\ FirstAbsent(GivenProgram) = ""
        /\ GivenProgram["status"] \in {"RESERVED", "ON_AIR", "ENDED"}
        /\ GivenProgram["providerType"] \notin {"community", "channel", "official"})
       => /\ last.raised /\ last.error = "UnknownProviderType"
          /\ last.detail = GivenProgram["providerType"]

\* the record of an official stream of channel ch5
C16_Witness ==
    /\ Extracted /\ ~last.raised
    /\ GivenProgram["providerType"] = "official"
    /\ last.ret.type = StreamingType.COMPANY
    /\ last.ret.channel_id = PyStr(<<"5">>)
    /\ last.ret.streamer_id = PyInt(UNKNOWN_STREAMER_ID)

\* the code of each known status
CodeOf(status) ==
    IF status = "RESERVED" THEN 10 ELSE IF status = "ON_AIR" THEN 20 ELSE 30

\* C17: status mapping.  RESERVED gives 10, ON_AIR 20, ENDED 30; any other
\* status is refused with the unknown-status error naming the value, so the
\* status of every record the normalizer returns is one of 10, 20, 30.
C17_StatusMapping ==
    /\ last.op = "convert_streaming_status_to_code"
       => IF last.args[1] \in {"RESERVED", "ON_AIR", "ENDED"}
          THEN ~last.raised /\ last.ret = CodeOf(last.args[1])
          ELSE /\ last.raised /\ last.error = "UnknownStatus"
               /\ last.detail = last.args[1]
    /\ (Extracted /\ ~last.raised)
       => /\ last.ret.status \in {10, 20, 30}
          /\ GivenProgram["status"] \in {"RESERVED", "ON_AIR", "ENDED"}
          /\ last.ret.status = CodeOf(GivenProgram["status"])
    /\ (/\ Extracted /\ Has(GivenProps, "program")
        /\ FirstAbsent(GivenProgram) = ""
        /\ GivenProgram["status"] \notin {"RESERVED", "ON_AIR", "ENDED"})
       => /\ last.raised /\ last.error = "UnknownStatus"
          /\ last.detail = GivenProgram["status"]

\* a mapping with the status UNKNOWN_STATUS was refused
C17_Witness ==
    /\ Extracted /\ last.raised
    /\ FirstAbsent(GivenProgram) = ""
    /\ GivenProgram["status"] = "UNKNOWN_STATUS"
    /\ last.error = "UnknownStatus" /\ last.detail = "UNKNOWN_STATUS"

\* a str without its two leading characters a, b, if it has them
StripOnce(str_, a, b) ==
    IF Len(str_) >= 2 /\ str_[1] = a /\ str_[2] = b
    THEN [i \in 1..(Len(str_) - 2) |-> str_[i + 2]]
    ELSE str_

\* the same characters in the same order
SameStr(x, y) == Len(x) = Len(y) /\ \A i \in 1..Len(x) : x[i] = y[i]

\* C24: prefix stripping.  The id of a record is the payload's
\* nicoliveProgramId without one leading "lv"; for channel and official
\* streams the channel id is socialGroup.id without one leading "ch"; a
\* value that does not begin with the prefix is passed through unchanged.
C24_PrefixStripping ==
    (Extracted /\ ~last.raised)
    => /\ last.ret.id[1] = "str"
       /\ SameStr(last.ret.id[2],
                  StripOnce(GivenProgram["nicoliveProgramId"], "l", "v"))
       /\ GivenProgram["providerType"] \in {"channel", "official"}
          => /\ last.ret.channel_id[1] = "str"
             /\ SameStr(last.ret.channel_id[2],
                        StripOnce(GivenProps["socialGroup"]["id"], "c", "h"))

\* "lv2" gave the id "2", and the channel id "5ch" was passed through
C24_Witness ==
    /\ Extracted /\ ~last.raised
    /\ GivenProgram["providerType"] = "channel"
    /\ GivenProgram["nicoliveProgramId"] = <<"l", "v", "2">>
    /\ GivenProps["socialGroup"]["id"] = <<"5", "c", "h">>
    /\ last.ret.id = PyStr(<<"2">>)
    /\ last.ret.channel_id = PyStr(<<"5", "c", "h">>)

\* C25: for a community stream, a supplier that is absent or lacks
\* programProviderId or name does not fail the normalizer: the record has
\* the type USER, and each of the two streamer fields is the supplier's
\* when the supplier has it and the sentinel when not, one independently of
\* the other.
C25_SupplierFallback ==
    (/\ Extracted /\ ValidButForTimes(GivenProps)
     /\ GivenProgram["providerType"] = "community"
     /\ GivenProgram["endTime"] >= GivenProgram["beginTime"])
    => /\ ~last.raised
       /\ last.ret.type = StreamingType.USER
       /\ IF /\ Has(GivenProgram, "supplier")
             /\ Has(GivenProgram["supplier"], "programProviderId")
          THEN last.ret.streamer_id
                  = PyStr(GivenProgram["supplier"]["programProviderId"])
          ELSE last.ret.streamer_id = PyInt(UNKNOWN_STREAMER_ID)
       /\ IF /\ Has(GivenProgram, "supplier")
             /\ Has(GivenProgram["supplier"], "name")
          THEN last.ret.streamer_name = GivenProgram["supplier"]["name"]
          ELSE last.ret.streamer_name = UNKNOWN_STREAMER_NAME

\* a supplier with a name and no id: the record has the sentinel id and
\* the supplier's name
C25_Witness ==
    /\ Extracted /\ ~last.raised
    /\ GivenProgram["providerType"] = "community"
    /\ Has(GivenProgram, "supplier")
    /\ DOMAIN GivenProgram["supplier"] = {"name"}
    /\ last.ret.streamer_id = PyInt(UNKNOWN_STREAMER_ID)
    /\ last.ret.streamer_name = "B"
    /\ last.ret.type = StreamingType.USER

----------------------------------------------------------------------------
(* Properties of the fetcher, checked under SpecFetch.                     *)

\* the methods a run invoked
Invoked(calls) == {calls[i] : i \in DOMAIN calls}

\* "lv" and a digit stand at index i of a URL
LvDigitAt(url, i) ==
    /\ i + 2 <= Len(url)
    /\ url[i] = "l" /\ url[i + 1] = "v" /\ url[i + 2] \in Digits

HasLvDigits(url) == \E i \in 1..Len(url) : LvDigitAt(url, i)

\* the number that the first run of digits after an "lv" spells
FirstLvNumber(url) ==
    LET i == CHOOSE k \in 1..Len(url) :
                /\ LvDigitAt(url, k)
                /\ \A j \in 1..(k - 1) : ~LvDigitAt(url, j)
        e == CHOOSE k \in (i + 2)..Len(url) :
                /\ \A j \in (i + 2)..k : url[j] \in Digits
                /\ k = Len(url) \/ url[k + 1] \notin Digits
    IN  DigitsVal(SubSeq(url, i + 2, e))

\* C26, for one step: fetch_html got a response that is not a 200
C26_Step ==
    (last'.op = "fetch_html" /\ last'.args[2] \notin {0, 200})
    => LET url == last'.args[1]
       IN  IF ~HasLvDigits(url)
           THEN /\ last'.raised /\ last'.error = "MalformedUrl"
                /\ "save_streaming_with_http_error" \notin Invoked(last'.calls)
                /\ UNCHANGED <<streamers, channels, streamings, now>>
           ELSE /\ ~last'.raised
                /\ \E t \in streamings' :
                      /\ t.streaming_id = FirstLvNumber(url)
                      /\ t.type = StreamingType.UNKNOWN
                      /\ t.status = last'.args[2]
                /\ {t \in streamings' : t.streaming_id # FirstLvNumber(url)}
                      = {t \in streamings : t.streaming_id # FirstLvNumber(url)}

\* C26: on a response that is not a 200, a URL without "lv" and digits makes
\* the fetch fail with the malformed-URL error and no sentinel row is
\* written; otherwise the sentinel row gets the number of the first run of
\* digits after an "lv".  extract_streaming_id gives that number, and for
\* the URL build_streaming_url makes of a numeric id X it gives X.
C26_UrlId ==
    /\ [][C26_Step]_vars
    /\ [](last.op = "extract_streaming_id"
          => IF HasLvDigits(last.args[1])
             THEN ~last.raised /\ last.ret = FirstLvNumber(last.args[1])
             ELSE last.raised /\ last.error = "MalformedUrl")
    /\ [](\A X \in {id \in UrlIdInputs : IsDigits(id)} :
             /\ ~extract_streaming_id(build_streaming_url(X)).raised
             /\ extract_streaming_id(build_streaming_url(X)).ret = DigitsVal(X))

\* a 404 for the URL of stream 12 left the sentinel row of stream 12
C26_Witness ==
    /\ last.op = "fetch_html" /\ ~last.raised
    /\ last.args = <<build_streaming_url(<<"1", "2">>), 404>>
    /\ \E t \in streamings :
          t.streaming_id = 12 /\ t.status = 404 /\ t.type = StreamingType.UNKNOWN

----------------------------------------------------------------------------
(* Properties of the pipeline, checked under SpecPipeline.                 *)

NormalizationErrors ==
    {"MissingField", "UnknownStatus", "UnknownProviderType", "InvalidTimeRange"}

\* What is wrong with a payload for the normalizer, as <<error, the field or
\* value at fault>>; <<>> when nothing is.  The time-range message names its
\* two fields in a fixed text.
Offending(p) ==
    IF FirstAbsent(p["program"]) # ""
    THEN <<"MissingField", FirstAbsent(p["program"])>>
    ELSE IF p["program"]["status"] \notin {"RESERVED", "ON_AIR", "ENDED"}
    THEN <<"UnknownStatus", p["program"]["status"]>>
    ELSE IF p["program"]["providerType"] \notin {"community", "channel", "official"}
    THEN <<"UnknownProviderType", p["program"]["providerType"]>>
    ELSE IF p["program"]["endTime"] < p["program"]["beginTime"]
    THEN <<"InvalidTimeRange", "">>
    ELSE <<>>

\* the page of stream 1 whose data-props decodes to p
PageOf(p) == <<"response", 200, <<"tag", <<"json", p>>>>>>

\* C14, for the run of the single-ID command on a page with payload p, in
\* the current state of the stores
C14_Run(p) ==
    LET h == handle(streamers, channels, streamings, now, <<"1">>, PageOf(p))
    IN  IF Offending(p) # <<>>
        THEN /\ h.raised
             /\ h.error = Offending(p)[1] /\ h.detail = Offending(p)[2]
             /\ h.streamers = streamers /\ h.channels = channels
             /\ h.streamings = streamings
        ELSE h.error \notin NormalizationErrors

\* C14, for one step: a run that ended in a normalization error
C14_Step ==
    (last'.op = "handle" /\ last'.error \in NormalizationErrors)
    => /\ last'.raised /\ last'.logs = <<"START", "ERROR">>
       /\ "save_streaming_data" \notin Invoked(last'.calls)
       /\ UNCHANGED <<streamers, channels, streamings, now>>

\* C14: a normalization failure writes nothing.  Whatever the stores hold, a
\* page whose payload lacks one required key, or has an unknown status, an
\* unknown provider type or endTime < beginTime makes the single-ID command
\* fail with the error naming that key or value, and leaves the Streamer,
\* Channel and Streaming tables exactly as they were.
C14_NormalizationWritesNothing ==
    /\ [](\A p \in PipelinePayloads : C14_Run(p))
    /\ [][C14_Step]_vars

\* with rows in all three tables, a page without beginTime was refused
C14_Witness ==
    /\ last.op = "handle" /\ last.raised
    /\ last.error = "MissingField" /\ last.detail = "beginTime"
    /\ streamers # {} /\ channels # {} /\ streamings # {}

\* the methods handle invokes for a page that passes every stage, in order
\* (requests.get is the request fetch_html makes)
AllStages ==
    <<"build_streaming_url", "get_default_headers", "fetch_html",
      "requests.get", "find_script_tag_with_data_props",
      "parse_data_props_to_dict", "extract_streaming_data",
      "save_streaming_data">>

\* the stages up to and including a given one
UpTo(stage) ==
    SubSeq(AllStages, 1,
           CHOOSE i \in DOMAIN AllStages : AllStages[i] = stage)

\* the stage at which each error is raised
StageOf(error) ==
    IF error = "RequestException" THEN "requests.get"
    ELSE IF error = "EmbeddedDataNotFound"
    THEN "find_script_tag_with_data_props"
    ELSE IF error \in {"EmptyPayload", "InvalidJson"}
    THEN "parse_data_props_to_dict"
    ELSE IF error \in NormalizationErrors THEN "extract_streaming_data"
    ELSE "save_streaming_data"

\* the error a 200 page of stream 1 must end in, "" for none, before the
\* stage that persists
ErrorOf(text) ==
    IF text = <<"notag">> THEN "EmbeddedDataNotFound"
    ELSE IF text = <<"tag", <<"blank">>>> THEN "EmptyPayload"
    ELSE IF text = <<"tag", <<"badjson">>>> THEN "InvalidJson"
    ELSE IF text[1] = "tag" /\ text[2][1] = "json" /\ Offending(text[2][2]) # <<>>
    THEN Offending(text[2][2])[1]
    ELSE ""

\* C18, for the run of the single-ID command on an answer of the site, in
\* the current state of the stores
C18_Run(response) ==
    LET h == handle(streamers, channels, streamings, now, <<"1">>, response)
    IN  IF response[1] = "RequestException"
        THEN /\ h.raised /\ h.error = "RequestException"
             /\ h.calls = UpTo("requests.get")
        ELSE (response[2] = 200 /\ response[3] # <<"empty">>)
             => IF ErrorOf(response[3]) # ""
                THEN /\ h.raised /\ h.error = ErrorOf(response[3])
                     /\ h.calls = UpTo(StageOf(h.error))
                ELSE /\ h.calls = AllStages
                     /\ h.raised => h.error = "PersistenceError"

\* C18: the single-ID command stops at the first fatal error.  Its stages
\* run in the order fetch, locate the script tag, decode, normalize, persist;
\* the run of a page that fails a stage invokes the stages up to that one
\* and no later one, logs the error and raises it with its text kept; the
\* success end marker is logged only by a run all of whose stages succeeded.
C18_FirstErrorStops ==
    /\ \A response \in PipelineResponses : C18_Run(response)
    /\ last.op = "handle"
       => /\ last.logs \in {<<"START", "ERROR">>, <<"START", "END_SAVED">>,
                            <<"START", "END_NOT_FOUND">>}
          /\ last.raised <=> last.logs[2] = "ERROR"
          /\ last.raised <=> last.error # ""
          /\ last.logs[2] = "END_SAVED" => last.calls = AllStages
          /\ (last.raised /\ last.args[2] \in {0, 200})
             => last.calls = UpTo(StageOf(last.error))
          /\ (last.raised /\ last.args[2] \notin {0, 200})
             => {"find_script_tag_with_data_props", "parse_data_props_to_dict",
                 "extract_streaming_data"} \cap Invoked(last.calls) = {}

\* a run stopped by a data-props that is not JSON
C18_Witness ==
    /\ last.op = "handle" /\ last.raised /\ last.error = "InvalidJson"
    /\ last.calls = UpTo("parse_data_props_to_dict")
    /\ last.logs = <<"START", "ERROR">>

\* how often a run invoked a method
Times(calls, method) == Cardinality({i \in DOMAIN calls : calls[i] = method})

\* C19, for one step: a run of the single-ID command whose request failed
C19_Step ==
    (last'.op = "handle" /\ last'.args[2] = 0)
    => /\ last'.raised /\ last'.error = "RequestException"
       /\ last'.logs = <<"START", "ERROR">>
       /\ Times(last'.calls, "requests.get") = 1
       /\ last'.calls = UpTo("requests.get")
       /\ UNCHANGED <<streamers, channels, streamings, now>>
       /\ IF rng.pc = "loop"
          THEN LET logged ==
                       rng.logs \o <<<<"ERROR", rng.cur, "RequestException">>>>
               IN  /\ rng'.called = Append(rng.called, rng.cur)
                   /\ IF rng.cur < rng.end_id
                      THEN /\ rng'.pc = "loop" /\ rng'.cur = rng.cur + 1
                           /\ rng'.logs = logged
                      ELSE /\ rng'.pc = "done"
                           /\ rng'.logs = logged \o <<<<"END">>>>
          ELSE rng' = rng

\* C19: a transport fault.  When the request fails, fetch_html raises after
\* that one request, without a second; no sentinel row is saved and the
\* Streamer, Channel and Streaming tables stay as they were; the single-ID
\* command fails with the fetch error; a range run logs it with the id and
\* goes on to the next id.
C19_TransportFault == [][C19_Step]_vars

\* in a range run over 1..2, with rows stored, the request for 1 failed and
\* the loop is at 2
C19_Witness ==
    /\ rng.pc = "loop" /\ rng.called = <<1>> /\ rng.cur = 2
    /\ rng.logs = <<<<"START">>, <<"ERROR", 1, "RequestException">>>>
    /\ last.op = "handle" /\ last.args = <<<<"1">>, 0>>
    /\ last.raised /\ last.error = "RequestException"
    /\ streamings # {}

\* a Streaming row is a sentinel row, of an HTTP status other than 200, or a
\* row of a normalized record
C27_Row(t) ==
    IF t.type = StreamingType.UNKNOWN
    THEN /\ t.status >= 100 /\ t.status # 200
         /\ t.start_time = t.end_time /\ t.duration_time = 0
    ELSE /\ t.type \in {10, 20, 30} /\ t.status \in {10, 20, 30}
         /\ AtOrAfter(t.end_time, t.start_time)

\* C27, for one step: the rows a run of the single-ID command wrote
C27_Step ==
    (last'.op = "handle" /\ ~last'.raised)
    => /\ \A t \in streamings' \ streamings :
             IF last'.args[2] = 200
             THEN t.type # StreamingType.UNKNOWN
             ELSE t.type = StreamingType.UNKNOWN /\ t.status = last'.args[2]
       /\ last'.args[2] # 200
          => \E t \in streamings' :
                /\ t.streaming_id = DigitsVal(last'.args[1])
                /\ t.type = StreamingType.UNKNOWN /\ t.status = last'.args[2]

\* C27: a Streaming row the pipeline wrote has the type UNKNOWN exactly when
\* the run that wrote it last got a response other than 200; its status is
\* then that HTTP status, its times are equal and its duration is zero.
\* Every other row has a type and a status among 10, 20, 30 and an end_time
\* not before its start_time.
C27_RowKinds ==
    /\ [](\A t \in streamings : C27_Row(t))
    /\ [][C27_Step]_vars

\* the row of stream 1, written from its page, was overwritten by the
\* sentinel row of a 404
C27_Witness ==
    /\ last.op = "handle" /\ last.args = <<<<"1">>, 404>>
    /\ streamers # {} /\ \E x \in streamers : x.streamer_id = 7
    /\ \A t \in streamings :
          t.streaming_id = 1 /\ t.type = StreamingType.UNKNOWN /\ t.status = 404

\* the Streaming rows a step created, modified or removed
C29_Touched == (streamings' \ streamings) \cup (streamings \ streamings')

\* C29, for one step of either command
C29_Step ==
    /\ last'.op = "handle"
       => \A t \in C29_Touched :
             /\ IsDigits(last'.args[1])
             /\ t.streaming_id = DigitsVal(last'.args[1])
    /\ rng.pc = "loop"
       => \A t \in C29_Touched :
             t.streaming_id \in rng.start_id..rng.end_id

\* C29: a run of the single-ID command for the id X creates or modifies only
\* the Streaming row whose streaming_id is X, whether the site answered 200
\* or not; a run of the range command therefore touches no row whose
\* streaming_id is outside start_id..end_id.
C29_OnlyRequestedRow == [][C29_Step]_vars

\* the Streamer rows of the sentinel streamer, the Channel rows of the
\* sentinel channel
C30_SentinelStreamers ==
    {x \in streamers : x.streamer_id = UNKNOWN_STREAMER_ID}
C30_SentinelChannels ==
    {c \in channels : c.channel_id = UNKNOWN_CHANNEL_ID}

\* C30: sentinel writes do not grow the Streamer history.  After any runs of
\* the pipeline UNKNOWN_STREAMER_ID has at most one Streamer row, and once a
\* Streaming row references the sentinel channel, UNKNOWN_CHANNEL_ID has
\* exactly one Channel row.
C30_SentinelRowsBounded ==
    /\ Cardinality(C30_SentinelStreamers) <= 1
    /\ Cardinality(C30_SentinelChannels) <= 1
    /\ (\E t \in streamings, c \in C30_SentinelChannels : t.channel = c.id)
       => Cardinality(C30_SentinelChannels) = 1

----------------------------------------------------------------------------
(* Properties of save_streaming_data, checked under SpecStore.             *)

\* C20, for one step: a call of save_streaming_data that raised.  .detail
\* is the sub-operation that failed.
C20_Step ==
    (last'.op = "save_streaming_data" /\ last'.raised)
    => LET d == last'.args[1]
           a == save_or_get_streamer(streamers, now, int(d.streamer_id),
                                     d.streamer_name)
           b == create_or_update_channel(channels, int(d.channel_id),
                                         d.channel_name, d.company_name)
       IN  /\ streamings' = streamings
           /\ last'.detail \in {"streamer", "channel", "streaming"}
           /\ last'.detail = "streamer"
              => streamers' = streamers /\ channels' = channels
           /\ last'.detail = "channel"
              => /\ ~a.raised /\ streamers' = a.streamers
                 /\ channels' = channels
           /\ last'.detail = "streaming"
              => /\ ~a.raised /\ streamers' = a.streamers
                 /\ ~b.raised /\ channels' = b.channels

\* C20: save_streaming_data is not atomic.  Its sub-operations run in the
\* order streamer, channel, streaming; when one fails the call raises once,
\* the writes of the sub-operations before it stay in the tables (none is
\* made by those after it) and no Streaming row is created or changed.
C20_NotAtomic == [][C20_Step]_vars

\* the streaming upsert failed after a Streamer row and a Channel row were
\* written to empty tables
C20_Witness ==
    /\ last.op = "save_streaming_data" /\ last.raised
    /\ last.detail = "streaming"
    /\ Cardinality(streamers) = 1 /\ Cardinality(channels) = 1
    /\ streamings = {}

\* the operations that persist, each with its arguments in last.args
PersistOps ==
    {"save_or_get_streamer", "create_or_update_channel",
     "save_or_update_streaming", "save_streaming_data"}

\* C21, for one step: an operation called again with the arguments of the
\* call just before it
C21_Step ==
    (/\ ops' = ops + 1
     /\ last'.op \in PersistOps
     /\ last.op = last'.op /\ last.args = last'.args)
    => /\ UNCHANGED <<streamers, channels, streamings, now>>
       /\ last'.raised = last.raised /\ last'.ret = last.ret

\* save_streaming_data(d) once and then once more, from the current tables
C21_SaveTwice(d) ==
    LET once == save_streaming_data(streamers, channels, streamings, now, d)
        twice == save_streaming_data(once.streamers, once.channels,
                                     once.streamings, once.now, d)
    IN  /\ twice.streamers = once.streamers /\ twice.channels = once.channels
        /\ twice.streamings = once.streamings
        /\ twice.raised = once.raised

C21_StreamerTwice(streamer_id, name) ==
    LET once == save_or_get_streamer(streamers, now, streamer_id, name)
        twice == save_or_get_streamer(once.streamers, once.now, streamer_id, name)
    IN  /\ twice.streamers = once.streamers
        /\ twice.raised = once.raised /\ twice.ret = once.ret

C21_ChannelTwice(channel_id, name, company_name) ==
    LET once == create_or_update_channel(channels, channel_id, name, company_name)
        twice == create_or_update_channel(once.channels, channel_id, name,
                                          company_name)
    IN  /\ twice.channels = once.channels
        /\ twice.raised = once.raised /\ twice.ret = once.ret

C21_StreamingTwice(d, streamer, channel) ==
    LET once == save_or_update_streaming(streamings, d, streamer, channel)
        twice == save_or_update_streaming(once.streamings, d, streamer, channel)
    IN  twice.streamings = once.streamings /\ twice.raised = once.raised

\* C21: persisting is idempotent.  From every reachable state of the tables,
\* save_streaming_data(r) run twice in a row leaves the Streamer, Channel and
\* Streaming rows that one run leaves, and so does each of its three
\* sub-operations run twice with the same arguments.
C21_Idempotent ==
    /\ [](/\ \A d \in StreamingDataInputs : C21_SaveTwice(d)
          /\ \A sid \in StreamerIdInputs, name \in StreamerNameInputs :
                C21_StreamerTwice(sid, name)
          /\ \A cid \in ChannelIdInputs, ch \in ChannelInputs :
                C21_ChannelTwice(cid, ch[1], ch[2])
          /\ \A d \in StreamingUpsertInputs, a \in streamers, b \in channels :
                C21_StreamingTwice(d, a.id, b.id))
    /\ [][C21_Step]_vars

\* save_streaming_data was run twice on empty tables, for a record of
\* streamer 7 and channel 5: one row in each table
C21_Witness ==
    /\ ops = 2 /\ last.op = "save_streaming_data" /\ ~last.raised
    /\ last.args[1].channel_id = PyInt(5)
    /\ Cardinality(streamers) = 1 /\ Cardinality(channels) = 1
    /\ Cardinality(streamings) = 1
    /\ \A t \in streamings : t.type = last.args[1].type /\ t.title = last.args[1].title

\* C23: after a successful save_streaming_data(r) there is one Streaming row
\* of r's id; it references a Streamer row of r's streamer id and name that
\* is the most recently created row of that streamer id, and the one
\* Channel row of r's channel id.
C23_ReferencesCurrentRows ==
    (last.op = "save_streaming_data" /\ ~last.raised)
    => LET r == last.args[1]
           rows == {t \in streamings : t.streaming_id = int(r.id)}
           ofStreamer == {x \in streamers : x.streamer_id = int(r.streamer_id)}
           ofChannel == {c \in channels : c.channel_id = int(r.channel_id)}
       IN  /\ Cardinality(rows) = 1
           /\ Cardinality(ofChannel) = 1
           /\ \A t \in rows :
                 /\ \E x \in ofStreamer :
                       /\ x.id = t.streamer
                       /\ x.name = r.streamer_name
                       /\ \A y \in ofStreamer \ {x} : y.created_at < x.created_at
                 /\ \E c \in ofChannel : c.id = t.channel

\* the stream was saved for streamer 7 under a second name: its row
\* references the newer of the two Streamer rows
C23_Witness ==
    /\ last.op = "save_streaming_data" /\ ~last.raised
    /\ last.args[1].streamer_name = "B"
    /\ Cardinality({x \in streamers : x.streamer_id = 7}) = 2
    /\ \E t \in streamings, x \in streamers :
          t.streamer = x.id /\ x.name = "B" /\ x.created_at = now

----------------------------------------------------------------------------
(* Properties of concurrent runs, checked under SpecConcurrent.            *)

\* each of the two processes has made one call, of save_streaming_data, and
\* both calls have returned
BothSaved ==
    /\ ops = 2
    /\ \A p \in Procs : procs[p].op = "save_streaming_data" /\ procs[p].pc = "done"

\* the fields of a Streaming row all come from the record d
WrittenFrom(t, d) ==
    /\ t.streaming_id = int(d.id)
    /\ t.type = d.type /\ t.title = d.title /\ t.status = d.status
    /\ t.start_time = d.start_time /\ t.end_time = d.end_time
    /\ t.duration_time = ToInterval(d.duration_time)

\* C22: upserts are safe under concurrent runs, last write wins.  When two
\* processes have saved records of the same streaming id and the same
\* channel id at the same time, the tables hold exactly one Streaming row
\* and one Channel row of the id, and the fields of each row all come from
\* one of the two records.
C22_ConcurrentUpsertsSafe ==
    BothSaved
    => \A p \in Procs :
          LET d == procs[p].data
              rows == {t \in streamings : t.streaming_id = int(d.id)}
              chans == {c \in channels : c.channel_id = int(d.channel_id)}
          IN  /\ Cardinality(rows) = 1
              /\ Cardinality(chans) = 1
              /\ \A t \in rows : \E q \in Procs : WrittenFrom(t, procs[q].data)
              /\ \A c \in chans :
                    \E q \in Procs :
                       /\ c.name = procs[q].data.channel_name
                       /\ c.company_name = procs[q].data.company_name

\* both processes called save_or_get_streamer with the same id and name,
\* each when the rows of the id were the same rows, the latest of them (if
\* any) of another name; and both calls have returned
BothGotStreamer ==
    /\ \A p \in Procs :
          /\ procs[p].op = "save_or_get_streamer" /\ procs[p].pc = "done"
          /\ \A row \in latest_streamer(procs[p].seen, procs[p].sid) :
                row.name # procs[p].name
    /\ procs[1].sid = procs[2].sid /\ procs[1].name = procs[2].name
    /\ procs[1].seen = procs[2].seen

\* C28: two concurrent save_or_get_streamer calls with the same id and the
\* same name, begun when the id has no row or its latest row has another
\* name, append one Streamer row between them and both return that row.
C28_ConcurrentStreamerOnce ==
    BothGotStreamer
    => LET rows == {r \in streamers : r.streamer_id = procs[1].sid}
       IN  /\ Cardinality(rows \ procs[1].seen) = 1
           /\ procs[1].streamer = procs[2].streamer
           /\ \A r \in rows \ procs[1].seen :
                 r.id = procs[1].streamer /\ r.name = procs[1].name

====
